---- MODULE Spec2Model ----
(***************************************************************************)
(* Authentication core of fetch-otp: credential store with account        *)
(* lockout, JWT issuance, the session ledger, the audit log and the        *)
(* login / logout / refresh / change-password services behind the          *)
(* authenticate middleware.                                                *)
(*                                                                         *)
(* Each request is a process that advances one `await` at a time: the      *)
(* store statements of different requests interleave exactly where the     *)
(* JavaScript code awaits.  Time is in whole seconds (the resolution of    *)
(* MySQL DATETIME and of the JWT iat/exp claims).                          *)
(*                                                                         *)
(* Spec lets requests overlap, SpecSeq serves them one at a time, and      *)
(* SpecFaults is Spec with INSERTs into audit_log that may fail.           *)
(* SpecAdmin is Spec with User.unlockAccount.  On top of SpecSeq,          *)
(* SpecStoreFaults lets any database call throw (and an account be         *)
(* deactivated), SpecHang lets a call stay unanswered, under weak          *)
(* fairness of the handlers, and SpecPurge runs AuditLog.deleteOlderThan.  *)
(* SpecBurst is a burst of logins from one client.  SpecAccounts adds      *)
(* requests with any Authorization header and accounts that are            *)
(* deactivated or deleted, SpecLedger adds revokeAllExceptCurrent and the  *)
(* session purges, and SpecTtl is SpecSeq under each of a set of settings  *)
(* of JWT_EXPIRES_IN (every other specification runs with the default).    *)
(* SpecRetention is SpecLedger with User.deleteById, and SpecRoles is      *)
(* SpecSeq with the administrators' statistics route, User.updateRole and  *)
(* User.deactivate.                                                        *)
(***************************************************************************)
EXTENDS Integers, Sequences, FiniteSets, TLC

VARIABLES
  env,            \* process.env.JWT_EXPIRES_IN as the process was started
  now,            \* the clock, in seconds
  users,          \* table users, by id
  sessions,       \* table sessions, in id order
  nextSessionId,  \* AUTO_INCREMENT of sessions
  audit,          \* table audit_log, in id order
  req,            \* the requests being served, by slot
  started,        \* requests started so far
  ticks,          \* clock steps taken so far
  faults,         \* store failures injected so far
  lastWrite,      \* history: the slot that last wrote a user's lockout columns
  loggedOut       \* history: the tokens a logout has revoked

vars == <<env, now, users, sessions, nextSessionId, audit, req, started, ticks, faults,
          lastWrite, loggedOut>>

(***************************************************************************)
(* Bounds of the model.                                                    *)
(***************************************************************************)
MaxRequests == 2
MaxTicks == 1
MaxFaults == 1

\* Two request slots: any two requests may overlap.
Procs == {1, 2}

(***************************************************************************)
(* Program constants.                                                      *)
(***************************************************************************)
MAX_LOGIN_ATTEMPTS == 5
LOCKOUT_DURATION_MINUTES == 15

NULL == -1

UserIds == {1, 2}
Passwords == {"SecurePass123!", "WrongPass456!"}

usernameOf(id) == IF id = 1 THEN "admin" ELSE "local_user"
roleOf(id) == IF id = 1 THEN "admin" ELSE "local"

(***************************************************************************)
(* bcrypt: a hash remembers the password it was made from; compare         *)
(* succeeds exactly for that password.                                     *)
(***************************************************************************)
bcryptHash(plain) == <<"bcrypt", plain>>

verifyPassword(plainPassword, hashedPassword) == hashedPassword = bcryptHash(plainPassword)

(***************************************************************************)
(* config/security.js                                                      *)
(***************************************************************************)
\* The duration taken for seconds.
getLockoutExpiration_inSeconds(t) == t + LOCKOUT_DURATION_MINUTES

getLockoutExpiration(t) == t + LOCKOUT_DURATION_MINUTES * 60

\* The lock still holding at the instant it runs out.
isAccountLocked_inclusive(lockedUntil, t) == lockedUntil # NULL /\ lockedUntil >= t

isAccountLocked(lockedUntil, t) == IF lockedUntil = NULL THEN FALSE ELSE lockedUntil > t

(***************************************************************************)
(* config/jwt.js                                                           *)
(***************************************************************************)
\* Strings are sequences of characters.  The environment leaves the
\* variable unset (or empty), or sets it to a string.
Unset == <<>>

JWT_EXPIRES_IN == IF env = Unset THEN <<"1", "h">> ELSE env

Digits == {"0", "1", "2", "3", "4", "5", "6", "7", "8", "9"}

digitValue(c) ==
  CASE c = "0" -> 0 [] c = "1" -> 1 [] c = "2" -> 2 [] c = "3" -> 3 [] c = "4" -> 4
    [] c = "5" -> 5 [] c = "6" -> 6 [] c = "7" -> 7 [] c = "8" -> 8 [] c = "9" -> 9

\* parseInt(str, 10) of a string of digits
RECURSIVE parseInt(_)
parseInt(str) ==
  IF str = <<>> THEN 0
  ELSE parseInt(SubSeq(str, 1, Len(str) - 1)) * 10 + digitValue(str[Len(str)])

\* expiresIn.match(/^(\d+)([smhd])$/)
matches(expiresIn) ==
  /\ Len(expiresIn) >= 2
  /\ expiresIn[Len(expiresIn)] \in {"s", "m", "h", "d"}
  /\ \A i \in 1..(Len(expiresIn) - 1) : expiresIn[i] \in Digits

multipliers(unit) ==
  CASE unit = "s" -> 1
    [] unit = "m" -> 60
    [] unit = "h" -> 3600
    [] unit = "d" -> 86400
    [] OTHER -> 3600

getTokenExpirationSeconds ==
  LET expiresIn == JWT_EXPIRES_IN IN
  IF ~matches(expiresIn) THEN 3600
  ELSE parseInt(SubSeq(expiresIn, 1, Len(expiresIn) - 1))
         * multipliers(expiresIn[Len(expiresIn)])

\* jwt.sign's reading of expiresIn, a string: the timespan the `ms` package
\* parses (a number, optional spaces, an optional unit name; no unit means
\* milliseconds), in whole seconds.  NULL when `ms` cannot read the string
\* (jwt.sign then throws).
leadingDigits(str) ==
  CHOOSE n \in 0..Len(str) :
    /\ \A i \in 1..n : str[i] \in Digits
    /\ n < Len(str) => str[n + 1] \notin Digits

RECURSIVE trimLeft(_)
trimLeft(str) ==
  IF str # <<>> /\ str[1] = " " THEN trimLeft(Tail(str)) ELSE str

\* seconds in one unit of `ms`, or 0 for a unit below the second
msUnitSeconds(unit) ==
  CASE unit \in {<<>>, <<"m", "s">>} -> 0
    [] unit \in {<<"s">>, <<"s", "e", "c">>} -> 1
    [] unit \in {<<"m">>, <<"m", "i", "n">>} -> 60
    [] unit \in {<<"h">>, <<"h", "r">>} -> 3600
    [] unit \in {<<"d">>, <<"d", "a", "y">>, <<"d", "a", "y", "s">>} -> 86400
    [] unit \in {<<"w">>} -> 604800
    [] OTHER -> NULL

timespan(expiresIn) ==
  LET n == leadingDigits(expiresIn)
      unit == trimLeft(SubSeq(expiresIn, n + 1, Len(expiresIn)))
      value == parseInt(SubSeq(expiresIn, 1, n))
  IN
  IF n = 0 \/ msUnitSeconds(unit) = NULL THEN NULL
  ELSE IF msUnitSeconds(unit) = 0 THEN value \div 1000
  ELSE value * msUnitSeconds(unit)

NoToken == [userId |-> 0, username |-> "", role |-> "", iat |-> 0, exp |-> 0]

\* A token signed with the role claim left at a default.
generateToken_defaultRole(payload, t) ==
  [userId |-> payload.userId, username |-> payload.username, role |-> "user",
   iat |-> t, exp |-> t + timespan(JWT_EXPIRES_IN)]

\* jwt.sign(payload, secret, {expiresIn}): the token is a function of the
\* payload and of the second it is signed in.
generateToken(payload, t) ==
  [userId |-> payload.userId, username |-> payload.username, role |-> payload.role,
   iat |-> t, exp |-> t + timespan(JWT_EXPIRES_IN)]

\* jwt.verify: "ok", or the message of the error verifyToken throws.
verifyToken(token, t) ==
  IF token.userId = 0 THEN "Invalid token"
  ELSE IF t >= token.exp THEN "Token expired"
  ELSE "ok"

\* What verifyToken returns for a token that passes: jwt.verify's decoded
\* payload, every claim that was signed, iat and exp among them.
decoded(token) ==
  [userId |-> token.userId, username |-> token.username, role |-> token.role,
   iat |-> token.iat, exp |-> token.exp]

(***************************************************************************)
(* middleware/errorHandler.js: the response a thrown error becomes.        *)
(***************************************************************************)
\* retryAfter is the field of that name in the JSON body, NULL when absent.
Response(status, code, message) ==
  [status |-> status, code |-> code, message |-> message, token |-> NoToken,
   retryAfter |-> NULL]

AppError(message, statusCode, code) == Response(statusCode, code, message)

handleDatabaseError == Response(500, "DATABASE_ERROR", "Database error occurred")

NoResponse == Response(0, "", "")

(***************************************************************************)
(* Rows.                                                                   *)
(***************************************************************************)
NoUser ==
  [id |-> 0, username |-> "", password_hash |-> <<"bcrypt", "">>, role |-> "",
   is_active |-> FALSE, failed_login_attempts |-> 0, locked_until |-> NULL,
   last_login_at |-> NULL]

NoSession ==
  [id |-> 0, user_id |-> 0, token |-> NoToken, expires_at |-> NULL,
   created_at |-> NULL, revoked_at |-> NULL]

NoDetails == [reason |-> "", failedAttempts |-> NULL, isLocked |-> FALSE]

NoEntry == [userId |-> 0, action |-> "", status |-> "", details |-> NoDetails]

\* The entry of a caller that leaves status out: create's default applies.
AuditEntry_statusOmitted(userId, action, status, details) ==
  [userId |-> userId, action |-> action, status |-> "success", details |-> details]

AuditEntry(userId, action, status, details) ==
  [userId |-> userId, action |-> action, status |-> status, details |-> details]

\* The row the INSERT leaves: created_at DEFAULT CURRENT_TIMESTAMP.
AuditRow(entry, t) ==
  [userId |-> entry.userId, action |-> entry.action, status |-> entry.status,
   details |-> entry.details, created_at |-> t]

Reason(r) == [NoDetails EXCEPT !.reason = r]

(***************************************************************************)
(* models/User.js                                                          *)
(***************************************************************************)
findByUsername(username) ==
  IF \E u \in UserIds : users[u].username = username
    THEN users[CHOOSE u \in UserIds : users[u].username = username]
    ELSE NoUser

findById(id) == IF id \in UserIds THEN users[id] ELSE NoUser

\* The counter starting over once it has reached the threshold.
incrementedAttempts_wrapping(n) == IF n >= MAX_LOGIN_ATTEMPTS THEN 0 ELSE n + 1

incrementedAttempts(n) == n + 1

\* The threshold test off by one.
thresholdReached_strict(n) == n > MAX_LOGIN_ATTEMPTS

\* The threshold test met only by the attempt that reaches it.
thresholdReached_exact(n) == n = MAX_LOGIN_ATTEMPTS

thresholdReached(n) == n >= MAX_LOGIN_ATTEMPTS

(***************************************************************************)
(* models/Session.js                                                       *)
(***************************************************************************)
SessionIdx == 1..Len(sessions)

\* SELECT ... WHERE token = ? through queryOne: rows[0], the row with the
\* lowest id (idx_token and the primary key both deliver in id order).
findByToken(token) ==
  IF \E i \in SessionIdx : sessions[i].token = token
    THEN sessions[CHOOSE i \in SessionIdx :
                    /\ sessions[i].token = token
                    /\ \A j \in SessionIdx : sessions[j].token = token => i <= j]
    ELSE NoSession

\* The validity test without the revocation branch.
isValid_ignoringRevocation(token, t) ==
  LET session == findByToken(token) IN
  IF session.id = 0 THEN FALSE
  ELSE IF session.expires_at < t THEN FALSE
  ELSE TRUE

isValid(token, t) ==
  LET session == findByToken(token) IN
  IF session.id = 0 THEN FALSE
  ELSE IF session.revoked_at # NULL THEN FALSE
  ELSE IF session.expires_at < t THEN FALSE
  ELSE TRUE

\* SELECT ... WHERE user_id = ? AND revoked_at IS NULL AND expires_at > NOW()
\* (the rows, without their order)
findActiveByUserId(userId, t) ==
  {sessions[i] : i \in {k \in SessionIdx :
                          /\ sessions[k].user_id = userId
                          /\ sessions[k].revoked_at = NULL
                          /\ sessions[k].expires_at > t}}

\* UPDATE sessions SET revoked_at = NOW() WHERE id IN ids
revokeRows(ids, t) ==
  [i \in SessionIdx |->
     IF sessions[i].id \in ids THEN [sessions[i] EXCEPT !.revoked_at = t] ELSE sessions[i]]

SessionRows == {sessions[i] : i \in SessionIdx}

revoke(sessionId, t) == revokeRows({sessionId}, t)

\* An UPDATE that flips revoked_at: a second revocation clears the stamp.
revokeByToken_toggle(token, t) ==
  [i \in SessionIdx |->
     IF sessions[i].token = token
       THEN [sessions[i] EXCEPT !.revoked_at = IF @ = NULL THEN t ELSE NULL]
       ELSE sessions[i]]

revokeByToken(token, t) ==
  revokeRows({s.id : s \in {r \in SessionRows : r.token = token}}, t)

\* The revoked_at condition of the WHERE clause inverted.
revokeAllByUserId_alreadyRevoked(userId, t) ==
  revokeRows({s.id : s \in {r \in SessionRows :
                              r.user_id = userId /\ r.revoked_at # NULL}}, t)

revokeAllByUserId(userId, t) ==
  revokeRows({s.id : s \in {r \in SessionRows :
                              r.user_id = userId /\ r.revoked_at = NULL}}, t)

\* The WHERE clause without the token != ? condition.
revokeAllExceptCurrent_all(userId, currentToken, t) ==
  revokeRows({s.id : s \in {r \in SessionRows :
                              r.user_id = userId /\ r.revoked_at = NULL}}, t)

revokeAllExceptCurrent(userId, currentToken, t) ==
  revokeRows({s.id : s \in {r \in SessionRows :
                              /\ r.user_id = userId
                              /\ r.token # currentToken
                              /\ r.revoked_at = NULL}}, t)

SessionCreate(userId, token, expiresAt, t) ==
  Append(sessions,
         [id |-> nextSessionId, user_id |-> userId, token |-> token,
          expires_at |-> expiresAt, created_at |-> t, revoked_at |-> NULL])


(***************************************************************************)
(* A request: its position (pc), its inputs, the locals the handler holds  *)
(* across awaits, the audit entry it is about to write, the response that  *)
(* follows that write, and the response sent.                              *)
(***************************************************************************)
Idle ==
  [pc |-> "idle", op |-> "", username |-> "", password |-> "", newPassword |-> "",
   token |-> NoToken, user |-> NoUser, updatedUser |-> NoUser, userId |-> 0,
   session |-> NoSession, entry |-> NoEntry, outcome |-> NoResponse,
   result |-> NoResponse,
   \* history of the request, read by the properties only
   lookupAt |-> NULL,        \* when login read the user row
   verified |-> "",          \* what bcrypt.compare answered
   myCount |-> NULL,         \* the counter value this request's increment wrote
   wroteLock |-> FALSE,      \* this request ran lockAccount
   lockAt |-> NULL,          \* when it did
   ledgerRevoked |-> FALSE,  \* the ledger had the token revoked at authenticate
   cpCutoff |-> NULL,        \* AUTO_INCREMENT of sessions when the hash changed
   failedCall |-> ""]        \* the store call of this request that threw

\* A request takes the first free slot (the slots are interchangeable).
Free(p) ==
  /\ req[p].pc \in {"idle", "done"}
  /\ \A q \in Procs : req[q].pc \in {"idle", "done"} => p <= q

Set(p, r) == [req EXCEPT ![p] = r]

\* await AuditLog.create(entry); then return or throw `outcome`
ToAudit(r, entry, outcome) ==
  [r EXCEPT !.pc = "audit", !.entry = entry, !.outcome = outcome]

\* res.status(...).json(...)
\* The handler's locals die with the request; what stays is what the client
\* sent and received, and the row the request was decided on.
Respond(r, response) ==
  [Idle EXCEPT !.pc = "done", !.op = r.op, !.username = r.username,
               !.password = r.password, !.token = r.token, !.user = r.user,
               !.lookupAt = r.lookupAt, !.verified = r.verified,
               !.wroteLock = r.wroteLock, !.ledgerRevoked = r.ledgerRevoked,
               !.cpCutoff = r.cpCutoff, !.outcome = r.outcome,
               !.result = response]

Success(token) == [Response(200, "OK", "") EXCEPT !.token = token]

(***************************************************************************)
(* services/otpService.js: login                                          *)
(***************************************************************************)
\* An answer of its own for a username nobody has.
UserNotFoundError_told == AppError("User not found", 404, "USER_NOT_FOUND")

UserNotFoundError == AppError("Invalid username or password", 401, "INVALID_CREDENTIALS")

WrongPasswordError == AppError("Invalid username or password", 401, "INVALID_CREDENTIALS")

AccountInactiveError == AppError("Account is inactive", 403, "ACCOUNT_INACTIVE")

AccountLockedError ==
  AppError("Account is temporarily locked. Please try again later.", 423, "ACCOUNT_LOCKED")

\* findByUsername, the active and lock checks, and bcrypt.compare on the
\* row just read (the comparison touches no shared state).
\* The password looked at before the lock.
LoginAfterLookup_verifyFirst(r, user, t) ==
  LET r1 == [r EXCEPT !.user = user, !.lookupAt = t] IN
  IF user.id = 0 THEN
    ToAudit(r1, AuditEntry(0, "login", "failure", Reason("user_not_found")),
            UserNotFoundError)
  ELSE IF ~user.is_active THEN
    ToAudit(r1, AuditEntry(user.id, "login", "failure", Reason("account_inactive")),
            AccountInactiveError)
  ELSE IF ~verifyPassword(r.password, user.password_hash) THEN
    [r1 EXCEPT !.pc = "login_increment", !.verified = "invalid"]
  ELSE IF isAccountLocked(user.locked_until, t) THEN
    ToAudit(r1, AuditEntry(user.id, "login", "failure", Reason("account_locked")),
            AccountLockedError)
  ELSE
    [r1 EXCEPT !.pc = "login_reset", !.verified = "valid"]

\* The lock looked at before the active flag.
LoginAfterLookup_lockFirst(r, user, t) ==
  LET r1 == [r EXCEPT !.user = user, !.lookupAt = t] IN
  IF user.id = 0 THEN
    ToAudit(r1, AuditEntry(0, "login", "failure", Reason("user_not_found")),
            UserNotFoundError)
  ELSE IF isAccountLocked(user.locked_until, t) THEN
    ToAudit(r1, AuditEntry(user.id, "login", "failure", Reason("account_locked")),
            AccountLockedError)
  ELSE IF ~user.is_active THEN
    ToAudit(r1, AuditEntry(user.id, "login", "failure", Reason("account_inactive")),
            AccountInactiveError)
  ELSE IF verifyPassword(r.password, user.password_hash) THEN
    [r1 EXCEPT !.pc = "login_reset", !.verified = "valid"]
  ELSE
    [r1 EXCEPT !.pc = "login_increment", !.verified = "invalid"]

LoginAfterLookup(r, user, t) ==
  LET r1 == [r EXCEPT !.user = user, !.lookupAt = t] IN
  IF user.id = 0 THEN
    ToAudit(r1, AuditEntry(0, "login", "failure", Reason("user_not_found")),
            UserNotFoundError)
  ELSE IF ~user.is_active THEN
    ToAudit(r1, AuditEntry(user.id, "login", "failure", Reason("account_inactive")),
            AccountInactiveError)
  ELSE IF isAccountLocked(user.locked_until, t) THEN
    ToAudit(r1, AuditEntry(user.id, "login", "failure", Reason("account_locked")),
            AccountLockedError)
  ELSE IF verifyPassword(r.password, user.password_hash) THEN
    [r1 EXCEPT !.pc = "login_reset", !.verified = "valid"]
  ELSE
    [r1 EXCEPT !.pc = "login_increment", !.verified = "invalid"]

\* A login request arrives: POST /auth/login runs to the answer of its
\* first query.
LoginLookup(p, username, password) ==
  /\ Free(p)
  /\ started < MaxRequests
  /\ started' = started + 1
  /\ req' = Set(p, LoginAfterLookup([Idle EXCEPT !.op = "login", !.username = username,
                                                 !.password = password],
                                    findByUsername(username), now))
  /\ UNCHANGED <<env, now, users, sessions, nextSessionId, audit, ticks, faults, lastWrite, loggedOut>>

\* User.incrementFailedAttempts: UPDATE ... failed_login_attempts + 1
LoginIncrement(p) ==
  /\ req[p].pc = "login_increment"
  /\ users' = [users EXCEPT ![req[p].user.id].failed_login_attempts =
                              incrementedAttempts(@)]
  /\ req' = Set(p, [req[p] EXCEPT !.pc = "login_increment_read",
                                  !.myCount = users'[req[p].user.id].failed_login_attempts])
  /\ lastWrite' = [lastWrite EXCEPT ![req[p].user.id] = p]
  /\ UNCHANGED <<env, now, sessions, nextSessionId, audit, started, ticks, faults, loggedOut>>

WrongPasswordEntry(updatedUser) ==
  AuditEntry(updatedUser.id, "login", "failure",
             [reason |-> "", failedAttempts |-> updatedUser.failed_login_attempts,
              isLocked |-> updatedUser.locked_until # NULL])

\* User.incrementFailedAttempts: findById, then the threshold test
LoginIncrementRead(p) ==
  /\ req[p].pc = "login_increment_read"
  /\ LET user == findById(req[p].user.id) IN
     req' = Set(p, IF thresholdReached(user.failed_login_attempts)
                     THEN [req[p] EXCEPT !.pc = "login_lock"]
                     ELSE ToAudit([req[p] EXCEPT !.updatedUser = user],
                                  WrongPasswordEntry(user), WrongPasswordError))
  /\ UNCHANGED <<env, now, users, sessions, nextSessionId, audit, started, ticks, faults, lastWrite, loggedOut>>

\* User.lockAccount: UPDATE users SET locked_until = getLockoutExpiration()
LoginLock(p) ==
  /\ req[p].pc = "login_lock"
  /\ users' = [users EXCEPT ![req[p].user.id].locked_until = getLockoutExpiration(now)]
  /\ req' = Set(p, [req[p] EXCEPT !.pc = "login_lock_read", !.wroteLock = TRUE,
                                  !.lockAt = now])
  /\ lastWrite' = [lastWrite EXCEPT ![req[p].user.id] = p]
  /\ UNCHANGED <<env, now, sessions, nextSessionId, audit, started, ticks, faults, loggedOut>>

\* User.incrementFailedAttempts: return await findById(userId)
LoginLockRead(p) ==
  /\ req[p].pc = "login_lock_read"
  /\ LET user == findById(req[p].user.id) IN
     req' = Set(p, ToAudit([req[p] EXCEPT !.updatedUser = user],
                           WrongPasswordEntry(user), WrongPasswordError))
  /\ UNCHANGED <<env, now, users, sessions, nextSessionId, audit, started, ticks, faults, lastWrite, loggedOut>>

\* The reset that clears the lock and keeps the counter.
resetFailedAttempts_lockOnly(row) == [row EXCEPT !.locked_until = NULL]

\* User.resetFailedAttempts
resetFailedAttempts(row) == [row EXCEPT !.failed_login_attempts = 0, !.locked_until = NULL]

LoginReset(p) ==
  /\ req[p].pc = "login_reset"
  /\ users' = [users EXCEPT ![req[p].user.id] = resetFailedAttempts(@)]
  /\ req' = Set(p, [req[p] EXCEPT !.pc = "login_last_login"])
  /\ lastWrite' = [lastWrite EXCEPT ![req[p].user.id] = p]
  /\ UNCHANGED <<env, now, sessions, nextSessionId, audit, started, ticks, faults, loggedOut>>

\* User.updateLastLogin
LoginUpdateLastLogin(p) ==
  /\ req[p].pc = "login_last_login"
  /\ users' = [users EXCEPT ![req[p].user.id].last_login_at = now]
  /\ req' = Set(p, [req[p] EXCEPT !.pc = "login_create_session"])
  /\ UNCHANGED <<env, now, sessions, nextSessionId, audit, started, ticks, faults, lastWrite, loggedOut>>

TokenPayload(user) == [userId |-> user.id, username |-> user.username, role |-> user.role]

\* generateToken, expiresAt = new Date() + expiresIn, Session.create
LoginCreateSession(p) ==
  /\ req[p].pc = "login_create_session"
  /\ LET token == generateToken(TokenPayload(req[p].user), now) IN
     /\ sessions' = SessionCreate(req[p].user.id, token, now + getTokenExpirationSeconds, now)
     /\ req' = Set(p, ToAudit(req[p],
                              AuditEntry(req[p].user.id, "login", "success", NoDetails),
                              Success(token)))
  /\ nextSessionId' = nextSessionId + 1
  /\ UNCHANGED <<env, now, users, audit, started, ticks, faults, lastWrite, loggedOut>>

(***************************************************************************)
(* models/AuditLog.js create, awaited by every service.                    *)
(***************************************************************************)
\* One row per user and action, rewritten by every later event.
AuditWrite_upsert(p) ==
  /\ req[p].pc = "audit"
  /\ LET Other(row) == row.userId # req[p].entry.userId \/ row.action # req[p].entry.action
     IN audit' = Append(SelectSeq(audit, Other), AuditRow(req[p].entry, now))
  /\ req' = Set(p, Respond(req[p], req[p].outcome))
  /\ UNCHANGED <<env, now, users, sessions, nextSessionId, started, ticks, faults, lastWrite, loggedOut>>

AuditWrite(p) ==
  /\ req[p].pc = "audit"
  /\ audit' = Append(audit, AuditRow(req[p].entry, now))
  /\ req' = Set(p, Respond(req[p], req[p].outcome))
  /\ UNCHANGED <<env, now, users, sessions, nextSessionId, started, ticks, faults, lastWrite, loggedOut>>

\* The INSERT fails: db.insert rethrows, the service call rejects, and
\* errorHandler answers the mysql error (code ER_...) or any other error.
DbErrorCodes == {"ER_LOCK_WAIT_TIMEOUT", "ECONNRESET"}

errorHandler(errCode) ==
  IF errCode = "ER_LOCK_WAIT_TIMEOUT"
    THEN handleDatabaseError
    ELSE Response(500, "INTERNAL_ERROR", "Internal server error")

AuditFailureResponse(outcome, errCode) == errorHandler(errCode)

AuditFail(p, errCode) ==
  /\ req[p].pc = "audit"
  /\ faults < MaxFaults
  /\ faults' = faults + 1
  /\ req' = Set(p, Respond(req[p], AuditFailureResponse(req[p].outcome, errCode)))
  /\ UNCHANGED <<env, now, users, sessions, nextSessionId, audit, started, ticks, lastWrite, loggedOut>>

(***************************************************************************)
(* middleware/auth.js authenticate, in front of every private route.       *)
(***************************************************************************)
ProtectedOps == {"logout", "me", "refresh", "changePassword"}

FirstStep(op) ==
  CASE op = "logout" -> "logout_revoke"
    [] op = "me" -> "me_find"
    [] op = "refresh" -> "refresh_is_valid"
    [] op = "changePassword" -> "cp_find_by_id"

\* Tokens a client can hold: those the server has issued.
IssuedTokens == {sessions[i].token : i \in SessionIdx}

\* authenticate without the lock test.
authenticate_noLockCheck(token, t) ==
  LET verdict == verifyToken(token, t)
      user == findById(token.userId)
  IN
  IF verdict = "Token expired" THEN
    Response(401, "TOKEN_EXPIRED", "Authentication token has expired")
  ELSE IF verdict = "Invalid token" THEN
    Response(401, "INVALID_TOKEN", "Invalid authentication token")
  ELSE IF user.id = 0 THEN
    Response(401, "USER_NOT_FOUND", "User not found")
  ELSE IF ~user.is_active THEN
    Response(403, "ACCOUNT_INACTIVE", "Account is inactive")
  ELSE NoResponse

\* authenticate with the lock examined before the active flag.
authenticate_lockFirst(token, t) ==
  LET verdict == verifyToken(token, t)
      user == findById(token.userId)
  IN
  IF verdict = "Token expired" THEN
    Response(401, "TOKEN_EXPIRED", "Authentication token has expired")
  ELSE IF verdict = "Invalid token" THEN
    Response(401, "INVALID_TOKEN", "Invalid authentication token")
  ELSE IF user.id = 0 THEN
    Response(401, "USER_NOT_FOUND", "User not found")
  ELSE IF isAccountLocked(user.locked_until, t) THEN
    Response(423, "ACCOUNT_LOCKED", "Account is temporarily locked. Please try again later.")
  ELSE IF ~user.is_active THEN
    Response(403, "ACCOUNT_INACTIVE", "Account is inactive")
  ELSE NoResponse

\* What authenticate decides for a token at time t: a response, or
\* NoResponse when it calls next().
authenticate(token, t) ==
  LET verdict == verifyToken(token, t)
      user == findById(token.userId)
  IN
  IF verdict = "Token expired" THEN
    Response(401, "TOKEN_EXPIRED", "Authentication token has expired")
  ELSE IF verdict = "Invalid token" THEN
    Response(401, "INVALID_TOKEN", "Invalid authentication token")
  ELSE IF user.id = 0 THEN
    Response(401, "USER_NOT_FOUND", "User not found")
  ELSE IF ~user.is_active THEN
    Response(403, "ACCOUNT_INACTIVE", "Account is inactive")
  ELSE IF isAccountLocked(user.locked_until, t) THEN
    Response(423, "ACCOUNT_LOCKED", "Account is temporarily locked. Please try again later.")
  ELSE NoResponse

\* A request for a private route arrives and passes through authenticate.
Authenticate(p, op, token, currentPassword, newPassword) ==
  /\ Free(p)
  /\ started < MaxRequests
  /\ started' = started + 1
  /\ LET answer == authenticate(token, now)
         r == [Idle EXCEPT !.op = op, !.token = token, !.password = currentPassword,
                           !.newPassword = newPassword,
                           !.ledgerRevoked = findByToken(token).revoked_at # NULL]
     IN
     req' = Set(p, IF answer # NoResponse
                     THEN Respond(r, answer)
                     ELSE [r EXCEPT !.pc = FirstStep(op), !.userId = token.userId])
  /\ UNCHANGED <<env, now, users, sessions, nextSessionId, audit, ticks, faults, lastWrite, loggedOut>>

(***************************************************************************)
(* services/otpService.js: logout, getCurrentUser                         *)
(***************************************************************************)
LogoutRevoke(p) ==
  /\ req[p].pc = "logout_revoke"
  /\ sessions' = revokeByToken(req[p].token, now)
  /\ req' = Set(p, ToAudit(req[p],
                           AuditEntry(req[p].userId, "logout", "success", NoDetails),
                           Success(NoToken)))
  /\ loggedOut' = loggedOut \cup {req[p].token}
  /\ UNCHANGED <<env, now, users, nextSessionId, audit, started, ticks, faults, lastWrite>>

MeFind(p) ==
  /\ req[p].pc = "me_find"
  /\ LET user == findById(req[p].userId) IN
     req' = Set(p, IF user.id = 0
                     THEN Respond(req[p], AppError("User not found", 404, "USER_NOT_FOUND"))
                     ELSE Respond([req[p] EXCEPT !.user = user], Success(NoToken)))
  /\ UNCHANGED <<env, now, users, sessions, nextSessionId, audit, started, ticks, faults, lastWrite, loggedOut>>

(***************************************************************************)
(* services/otpService.js: refreshToken                                   *)
(***************************************************************************)
RefreshIsValid(p) ==
  /\ req[p].pc = "refresh_is_valid"
  /\ req' = Set(p, IF ~isValid(req[p].token, now)
                     THEN Respond(req[p], AppError("Invalid or expired session", 401,
                                                   "INVALID_TOKEN"))
                     ELSE [req[p] EXCEPT !.pc = "refresh_find_session"])
  /\ UNCHANGED <<env, now, users, sessions, nextSessionId, audit, started, ticks, faults, lastWrite, loggedOut>>

RefreshFindSession(p) ==
  /\ req[p].pc = "refresh_find_session"
  /\ LET session == findByToken(req[p].token) IN
     req' = Set(p, IF session.id = 0
                     THEN Respond(req[p], AppError("Session not found", 404,
                                                   "SESSION_NOT_FOUND"))
                     ELSE [req[p] EXCEPT !.pc = "refresh_find_user", !.session = session])
  /\ UNCHANGED <<env, now, users, sessions, nextSessionId, audit, started, ticks, faults, lastWrite, loggedOut>>

RefreshFindUser(p) ==
  /\ req[p].pc = "refresh_find_user"
  /\ LET user == findById(req[p].session.user_id) IN
     req' = Set(p, IF user.id = 0 \/ ~user.is_active
                     THEN Respond(req[p], AppError("User not found or inactive", 401,
                                                   "INVALID_TOKEN"))
                     ELSE [req[p] EXCEPT !.pc = "refresh_revoke", !.user = user])
  /\ UNCHANGED <<env, now, users, sessions, nextSessionId, audit, started, ticks, faults, lastWrite, loggedOut>>

RefreshRevoke(p) ==
  /\ req[p].pc = "refresh_revoke"
  /\ sessions' = revoke(req[p].session.id, now)
  /\ req' = Set(p, [req[p] EXCEPT !.pc = "refresh_create_session"])
  /\ UNCHANGED <<env, now, users, nextSessionId, audit, started, ticks, faults, lastWrite, loggedOut>>

RefreshCreateSession(p) ==
  /\ req[p].pc = "refresh_create_session"
  /\ LET newToken == generateToken(TokenPayload(req[p].user), now) IN
     /\ sessions' = SessionCreate(req[p].user.id, newToken,
                                  now + getTokenExpirationSeconds, now)
     /\ req' = Set(p, ToAudit(req[p],
                              AuditEntry(req[p].user.id, "token_refresh", "success",
                                         NoDetails),
                              Success(newToken)))
  /\ nextSessionId' = nextSessionId + 1
  /\ UNCHANGED <<env, now, users, audit, started, ticks, faults, lastWrite, loggedOut>>

(***************************************************************************)
(* services/otpService.js: changePassword                                 *)
(***************************************************************************)
CpFindById(p) ==
  /\ req[p].pc = "cp_find_by_id"
  /\ LET user == findById(req[p].userId) IN
     req' = Set(p, IF user.id = 0
                     THEN Respond(req[p], errorHandler("TypeError"))
                     ELSE [req[p] EXCEPT !.pc = "cp_find_by_username",
                                         !.username = user.username])
  /\ UNCHANGED <<env, now, users, sessions, nextSessionId, audit, started, ticks, faults, lastWrite, loggedOut>>

\* findByUsername and bcrypt.compare of the current password
\* The answer of bcrypt.compare not looked at.
CpAfterLookup_unverified(r, user) ==
  IF user.id = 0 THEN
    Respond(r, AppError("User not found", 404, "USER_NOT_FOUND"))
  ELSE [r EXCEPT !.pc = "cp_set_hash", !.user = user,
                 !.verified = IF verifyPassword(r.password, user.password_hash)
                                THEN "valid" ELSE "invalid"]

CpAfterLookup(r, user) ==
  IF user.id = 0 THEN
    Respond(r, AppError("User not found", 404, "USER_NOT_FOUND"))
  ELSE IF ~verifyPassword(r.password, user.password_hash) THEN
    ToAudit([r EXCEPT !.user = user, !.verified = "invalid"],
            AuditEntry(user.id, "password_change", "failure",
                       Reason("invalid_current_password")),
            AppError("Current password is incorrect", 401, "INVALID_CREDENTIALS"))
  ELSE [r EXCEPT !.pc = "cp_set_hash", !.user = user, !.verified = "valid"]

CpFindByUsername(p) ==
  /\ req[p].pc = "cp_find_by_username"
  /\ req' = Set(p, CpAfterLookup(req[p], findByUsername(req[p].username)))
  /\ UNCHANGED <<env, now, users, sessions, nextSessionId, audit, started, ticks, faults, lastWrite, loggedOut>>

\* User.changePassword
CpSetHash(p) ==
  /\ req[p].pc = "cp_set_hash"
  /\ users' = [users EXCEPT ![req[p].userId].password_hash = bcryptHash(req[p].newPassword)]
  /\ req' = Set(p, [req[p] EXCEPT !.pc = "cp_revoke_all", !.cpCutoff = nextSessionId])
  /\ UNCHANGED <<env, now, sessions, nextSessionId, audit, started, ticks, faults, lastWrite, loggedOut>>

CpRevokeAll(p) ==
  /\ req[p].pc = "cp_revoke_all"
  /\ sessions' = revokeAllByUserId(req[p].userId, now)
  /\ req' = Set(p, ToAudit(req[p],
                           AuditEntry(req[p].user.id, "password_change", "success",
                                      NoDetails),
                           Success(NoToken)))
  /\ UNCHANGED <<env, now, users, nextSessionId, audit, started, ticks, faults, lastWrite, loggedOut>>

(***************************************************************************)
(* Session.revokeAllExceptCurrent has no caller in the services; it is an  *)
(* exported ledger operation ("log out other devices").                    *)
(***************************************************************************)
RevokeAllExceptCurrent(userId, currentToken) ==
  /\ started < MaxRequests
  /\ started' = started + 1
  /\ sessions' = revokeAllExceptCurrent(userId, currentToken, now)
  /\ UNCHANGED <<env, now, users, nextSessionId, audit, req, ticks, faults, lastWrite, loggedOut>>

(***************************************************************************)
(* The clock: one second passes, or time runs on to the next instant at    *)
(* which a lock or a session expires.  Requests are short next to a        *)
(* second: the clock moves between requests, not inside one.               *)
(***************************************************************************)
Deadlines ==
  {users[u].locked_until : u \in UserIds} \cup
  {sessions[i].expires_at : i \in SessionIdx}

NextDeadline ==
  {d \in Deadlines : d > now /\ \A e \in Deadlines : e > now => d <= e}

Quiescent == \A p \in Procs : req[p].pc \in {"idle", "done"}

Tick(t) ==
  /\ Quiescent
  /\ ticks < MaxTicks
  /\ t > now
  /\ ticks' = ticks + 1
  /\ now' = t
  /\ UNCHANGED <<env, users, sessions, nextSessionId, audit, req, started, faults,
                 lastWrite, loggedOut>>

(***************************************************************************)
(* The database as seeded (seeds.sql): active users with one password and  *)
(* no lock; `admin` has logged in and holds a live session.  The failure   *)
(* counter of `admin` is 0 or one short of the threshold.                  *)
(***************************************************************************)
SeedUser(id, attempts, lastLogin) ==
  [id |-> id, username |-> usernameOf(id),
   password_hash |-> bcryptHash("SecurePass123!"), role |-> roleOf(id),
   is_active |-> TRUE, failed_login_attempts |-> attempts, locked_until |-> NULL,
   last_login_at |-> lastLogin]

SeedAttempts == {0, MAX_LOGIN_ATTEMPTS - 1}

SeedSession ==
  [id |-> 1, user_id |-> 1,
   token |-> generateToken([userId |-> 1, username |-> usernameOf(1),
                            role |-> roleOf(1)], 0),
   expires_at |-> getTokenExpirationSeconds, created_at |-> 0, revoked_at |-> NULL]

\* The tables and the bookkeeping at start.
Seeded ==
  /\ now = 0
  /\ \E a \in SeedAttempts :
       users = [u \in UserIds |->
                  SeedUser(u, IF u = 1 THEN a ELSE 0, IF u = 1 THEN 0 ELSE NULL)]
  /\ sessions = <<SeedSession>>
  /\ nextSessionId = 2
  /\ audit = <<AuditRow(AuditEntry(1, "login", "success", NoDetails), 0)>>
  /\ req = [p \in Procs |-> Idle]
  /\ started = 0
  /\ ticks = 0
  /\ faults = 0
  /\ lastWrite = [u \in UserIds |-> 0]
  /\ loggedOut = {}

\* The process is started without JWT_EXPIRES_IN in its environment.
Init == env = Unset /\ Seeded

\* What a client types: a seeded username with the right or a wrong
\* password, or a username nobody has.
LoginInputs ==
  {<<usernameOf(u), pw>> : u \in UserIds, pw \in Passwords} \cup
  {<<"nobody", "WrongPass456!">>}

\* A client sends a request.
Start ==
  \/ \E p \in Procs, in \in LoginInputs : LoginLookup(p, in[1], in[2])
  \/ \E p \in Procs, op \in ProtectedOps, tok \in IssuedTokens, cur \in Passwords :
       Authenticate(p, op, tok, IF op = "changePassword" THEN cur ELSE "",
                    IF op = "changePassword" THEN "NewPass789!" ELSE "")
  \/ \E tok \in IssuedTokens : RevokeAllExceptCurrent(tok.userId, tok)

\* A request in flight runs to its next await.
Step ==
  \/ \E p \in Procs : LoginIncrement(p)
  \/ \E p \in Procs : LoginIncrementRead(p)
  \/ \E p \in Procs : LoginLock(p)
  \/ \E p \in Procs : LoginLockRead(p)
  \/ \E p \in Procs : LoginReset(p)
  \/ \E p \in Procs : LoginUpdateLastLogin(p)
  \/ \E p \in Procs : LoginCreateSession(p)
  \/ \E p \in Procs : AuditWrite(p)
  \/ \E p \in Procs : LogoutRevoke(p)
  \/ \E p \in Procs : MeFind(p)
  \/ \E p \in Procs : RefreshIsValid(p)
  \/ \E p \in Procs : RefreshFindSession(p)
  \/ \E p \in Procs : RefreshFindUser(p)
  \/ \E p \in Procs : RefreshRevoke(p)
  \/ \E p \in Procs : RefreshCreateSession(p)
  \/ \E p \in Procs : CpFindById(p)
  \/ \E p \in Procs : CpFindByUsername(p)
  \/ \E p \in Procs : CpSetHash(p)
  \/ \E p \in Procs : CpRevokeAll(p)

Clock == \E t \in {now + 1} \cup NextDeadline : Tick(t)

\* Requests overlap freely; the store never fails.
Next == Start \/ Step \/ Clock

Spec == Init /\ [][Next]_vars

\* One request at a time: the next one is sent when the last one is answered.
NextSeq == (Quiescent /\ Start) \/ Step \/ Clock

SpecSeq == Init /\ [][NextSeq]_vars

\* Requests overlap freely, and an INSERT into audit_log may fail.
NextFaults == Next \/ \E p \in Procs, errCode \in DbErrorCodes : AuditFail(p, errCode)

SpecFaults == Init /\ [][NextFaults]_vars

(***************************************************************************)
(* models/User.js unlockAccount has no caller in the services; it is the   *)
(* store's operation for an administrator, one UPDATE on the users row.    *)
(***************************************************************************)
unlockAccount(row) == [row EXCEPT !.failed_login_attempts = 0, !.locked_until = NULL]

UnlockAccount(userId) ==
  /\ users[userId] # unlockAccount(users[userId])
  /\ users' = [users EXCEPT ![userId] = unlockAccount(@)]
  /\ lastWrite' = [lastWrite EXCEPT ![userId] = 0]
  /\ UNCHANGED <<env, now, sessions, nextSessionId, audit, req, started, ticks, faults, loggedOut>>

\* models/User.js deactivate, likewise without a caller in the services.
deactivate(row) == [row EXCEPT !.is_active = FALSE]

Deactivate(userId) ==
  /\ users[userId].is_active
  /\ users' = [users EXCEPT ![userId] = deactivate(@)]
  /\ UNCHANGED <<env, now, sessions, nextSessionId, audit, req, started, ticks, faults,
                 lastWrite, loggedOut>>

\* Requests overlap freely, and an administrator may unlock an account at
\* any moment.
NextAdmin == Next \/ \E userId \in UserIds : UnlockAccount(userId)

SpecAdmin == Init /\ [][NextAdmin]_vars

(***************************************************************************)
(* config/database.js: a query, insert or update that fails logs the error *)
(* and rethrows it.  No service catches: the call rejects and errorHandler *)
(* answers.  authenticate has a catch of its own around its user lookup.   *)
(***************************************************************************)
\* The error caught and dropped: the handler goes on as if the call had
\* answered.
Thrown_swallowed(r, call, errCode) == [r EXCEPT !.failedCall = call]

\* The request r after its store call `call` threw errCode.
Thrown(r, call, errCode) ==
  [Respond(r, errorHandler(errCode)) EXCEPT !.failedCall = call]

\* A store or ledger call of the request in flight in slot p throws.
StoreFail(p, errCode) ==
  /\ req[p].pc \notin {"idle", "done", "audit"}
  /\ faults < MaxFaults
  /\ faults' = faults + 1
  /\ req' = Set(p, Thrown(req[p], req[p].pc, errCode))
  /\ UNCHANGED <<env, now, users, sessions, nextSessionId, audit, started, ticks,
                 lastWrite, loggedOut>>

\* A login request arrives and its first query, findByUsername, throws.
LoginLookupFail(p, username, password, errCode) ==
  /\ Free(p)
  /\ started < MaxRequests
  /\ started' = started + 1
  /\ faults < MaxFaults
  /\ faults' = faults + 1
  /\ req' = Set(p, Thrown([Idle EXCEPT !.op = "login", !.username = username,
                                        !.password = password],
                          "findByUsername", errCode))
  /\ UNCHANGED <<env, now, users, sessions, nextSessionId, audit, ticks, lastWrite, loggedOut>>

\* authenticate's catch for an error that is not a token error.
authenticateCatch == Response(500, "AUTH_ERROR", "Authentication failed")

\* A request for a private route arrives with a token that verifies, and
\* authenticate's user lookup throws.
AuthenticateFail(p, op, token) ==
  /\ Free(p)
  /\ started < MaxRequests
  /\ started' = started + 1
  /\ faults < MaxFaults
  /\ faults' = faults + 1
  /\ verifyToken(token, now) = "ok"
  /\ req' = Set(p, [Respond([Idle EXCEPT !.op = op, !.token = token], authenticateCatch)
                      EXCEPT !.failedCall = "authenticate"])
  /\ UNCHANGED <<env, now, users, sessions, nextSessionId, audit, ticks, lastWrite, loggedOut>>

\* One request at a time; any call to the database may throw, and an
\* administrator may deactivate an account.
NextStoreFaults ==
  \/ NextSeq
  \/ \E p \in Procs, errCode \in DbErrorCodes : AuditFail(p, errCode)
  \/ \E p \in Procs, errCode \in DbErrorCodes : StoreFail(p, errCode)
  \/ \E p \in Procs, in \in LoginInputs, errCode \in DbErrorCodes :
       Quiescent /\ LoginLookupFail(p, in[1], in[2], errCode)
  \/ \E p \in Procs, op \in ProtectedOps, tok \in IssuedTokens :
       Quiescent /\ AuthenticateFail(p, op, tok)
  \/ \E userId \in UserIds : Deactivate(userId)

SpecStoreFaults == Init /\ [][NextStoreFaults]_vars

(***************************************************************************)
(* config/database.js: pool.execute is awaited with no timeout, and the    *)
(* pool is created without one.  A query the database never answers leaves *)
(* its promise pending: the handler stays at that await.                   *)
(***************************************************************************)
Hang(p) ==
  /\ req[p].pc \notin {"idle", "done", "hung"}
  /\ faults < MaxFaults
  /\ faults' = faults + 1
  /\ req' = Set(p, [req[p] EXCEPT !.pc = "hung", !.failedCall = req[p].pc])
  /\ UNCHANGED <<env, now, users, sessions, nextSessionId, audit, started, ticks,
                 lastWrite, loggedOut>>

\* One request at a time, and a call to the database may stay unanswered.
NextHang == NextSeq \/ \E p \in Procs : Hang(p)

\* The event loop resumes every handler whose awaited call has answered.
SpecHang == Init /\ [][NextHang]_vars /\ WF_vars(Step)

(***************************************************************************)
(* models/AuditLog.js deleteOlderThan, the retention purge: the one        *)
(* statement that deletes from audit_log.  It has no caller in the         *)
(* services; an operator or a scheduled job runs it.                       *)
(***************************************************************************)
\* DELETE FROM audit_log WHERE created_at < DATE_SUB(NOW(), INTERVAL days DAY)
deleteOlderThan(days, t) ==
  LET Kept(row) == ~(row.created_at < t - days * 24 * 60 * 60)
  IN SelectSeq(audit, Kept)

PurgeDays == {0, 1}

DeleteOlderThan(days) ==
  /\ audit' = deleteOlderThan(days, now)
  /\ UNCHANGED <<env, now, users, sessions, nextSessionId, req, started, ticks, faults,
                 lastWrite, loggedOut>>

\* One request at a time, and the purge may run at any moment.
NextPurge == NextSeq \/ \E days \in PurgeDays : DeleteOlderThan(days)

SpecPurge == Init /\ [][NextPurge]_vars

(***************************************************************************)
(* routes/auth.js: POST /login goes through validateBody to the            *)
(* controller.  One client sends login after login, each when the last     *)
(* one has been answered.                                                  *)
(***************************************************************************)
MaxBurst == 6

BurstLogin(p, username, password) ==
  /\ Quiescent
  /\ Free(p)
  /\ started < MaxBurst
  /\ started' = started + 1
  /\ req' = Set(p, LoginAfterLookup([Idle EXCEPT !.op = "login", !.username = username,
                                                 !.password = password],
                                    findByUsername(username), now))
  /\ UNCHANGED <<env, now, users, sessions, nextSessionId, audit, ticks, faults, lastWrite, loggedOut>>

\* What that client types: guesses at the password of `admin`, the right
\* one among them, and a username nobody has.
BurstInputs == {in \in LoginInputs : in[1] # usernameOf(2)}

NextBurst ==
  \/ \E p \in Procs, in \in BurstInputs : BurstLogin(p, in[1], in[2])
  \/ \E p \in Procs : LoginIncrement(p)
  \/ \E p \in Procs : LoginIncrementRead(p)
  \/ \E p \in Procs : LoginLock(p)
  \/ \E p \in Procs : LoginLockRead(p)
  \/ \E p \in Procs : LoginReset(p)
  \/ \E p \in Procs : LoginUpdateLastLogin(p)
  \/ \E p \in Procs : LoginCreateSession(p)
  \/ \E p \in Procs : AuditWrite(p)
  \/ Clock

SpecBurst == Init /\ [][NextBurst]_vars

(***************************************************************************)
(* Accounts that go away.  models/User.js deleteById has no caller in the  *)
(* services either; the schema decides what the DELETE takes with it:      *)
(* sessions.user_id is ON DELETE CASCADE, audit_log.user_id is ON DELETE   *)
(* SET NULL.  A client keeps the token it was given whatever happens to    *)
(* the ledger, and may send no Authorization header or a string that is    *)
(* no token.                                                               *)
(***************************************************************************)
\* A Bearer string that jwt.verify rejects: malformed, or signed with
\* another secret.
MalformedToken == [NoToken EXCEPT !.username = "garbage"]

\* Tokens a client can send: those in the ledger, the seeded one (kept by
\* its holder when the ledger row is gone), and a string that is no token.
HeldTokens == IssuedTokens \cup {SeedSession.token, MalformedToken}

\* authenticate for a request without a 'Bearer ' Authorization header.
AuthenticateNoHeader(p, op) ==
  /\ Free(p)
  /\ started < MaxRequests
  /\ started' = started + 1
  /\ req' = Set(p, Respond([Idle EXCEPT !.op = op],
                           Response(401, "NO_TOKEN", "Authentication token is required")))
  /\ UNCHANGED <<env, now, users, sessions, nextSessionId, audit, ticks, faults, lastWrite, loggedOut>>

\* DELETE FROM users WHERE id = ?, with the cascade on sessions and the
\* SET NULL on audit_log (user_id NULL is written 0, as in an entry for an
\* unknown username).
deleteById(userId) == [users EXCEPT ![userId] = NoUser]

\* The account is deleted between two requests, or after authenticate let a
\* changePassword through and before the service reads the user.
DeleteById(userId) ==
  /\ \A p \in Procs : req[p].pc \in {"idle", "done", "cp_find_by_id"}
  /\ users[userId] # NoUser
  /\ users' = deleteById(userId)
  /\ sessions' = SelectSeq(sessions, LAMBDA s : s.user_id # userId)
  /\ audit' = [i \in 1..Len(audit) |->
                 IF audit[i].userId = userId THEN [audit[i] EXCEPT !.userId = 0]
                 ELSE audit[i]]
  /\ UNCHANGED <<env, now, nextSessionId, req, started, ticks, faults, lastWrite, loggedOut>>

\* One request at a time, with any Authorization header; an administrator
\* may deactivate or delete an account, and authenticate's user lookup may
\* throw.
NextAccounts ==
  \/ NextSeq
  \/ \E p \in Procs, op \in ProtectedOps : Quiescent /\ AuthenticateNoHeader(p, op)
  \/ \E p \in Procs, op \in ProtectedOps, tok \in HeldTokens, cur \in Passwords :
       Quiescent /\ Authenticate(p, op, tok, IF op = "changePassword" THEN cur ELSE "",
                                 IF op = "changePassword" THEN "NewPass789!" ELSE "")
  \/ \E p \in Procs, op \in ProtectedOps, tok \in HeldTokens :
       Quiescent /\ AuthenticateFail(p, op, tok)
  \/ \E userId \in UserIds : Deactivate(userId)
  \/ \E userId \in UserIds : DeleteById(userId)

SpecAccounts == Init /\ [][NextAccounts]_vars

(***************************************************************************)
(* Ledger maintenance.  models/Session.js exports two purges without a     *)
(* caller in the services, deleteExpired and deleteRevokedOlderThan, next  *)
(* to revokeAllExceptCurrent; each is one SQL statement.                   *)
(***************************************************************************)
\* DELETE FROM sessions WHERE expires_at < NOW()
deleteExpired(rows, t) == SelectSeq(rows, LAMBDA s : ~(s.expires_at < t))

\* DELETE FROM sessions WHERE revoked_at IS NOT NULL
\*   AND revoked_at < DATE_SUB(NOW(), INTERVAL ? DAY)
deleteRevokedOlderThan(rows, days, t) ==
  SelectSeq(rows, LAMBDA s : ~(s.revoked_at # NULL /\ s.revoked_at < t - days * 86400))

\* The purges run between requests, when there is something to delete.
DeleteExpired ==
  /\ Quiescent
  /\ deleteExpired(sessions, now) # sessions
  /\ sessions' = deleteExpired(sessions, now)
  /\ UNCHANGED <<env, now, users, nextSessionId, audit, req, started, ticks, faults,
                 lastWrite, loggedOut>>

DeleteRevokedOlderThan(days) ==
  /\ Quiescent
  /\ deleteRevokedOlderThan(sessions, days, now) # sessions
  /\ sessions' = deleteRevokedOlderThan(sessions, days, now)
  /\ UNCHANGED <<env, now, users, nextSessionId, audit, req, started, ticks, faults,
                 lastWrite, loggedOut>>

\* Time runs on to the first second after the next deadline.
ClockPast == \E t \in {d + 1 : d \in NextDeadline} : Tick(t)

\* One request at a time; revokeAllExceptCurrent for any user and any token
\* a client holds; the purges; the clock also stops just after a deadline.
NextLedger ==
  \/ NextSeq
  \/ \E userId \in UserIds, tok \in IssuedTokens \cup {SeedSession.token} :
       Quiescent /\ RevokeAllExceptCurrent(userId, tok)
  \/ DeleteExpired
  \/ \E days \in PurgeDays : DeleteRevokedOlderThan(days)
  \/ ClockPast

SpecLedger == Init /\ [][NextLedger]_vars

\* SpecLedger, and an administrator may delete an account.
NextRetention == NextLedger \/ \E userId \in UserIds : DeleteById(userId)

SpecRetention == Init /\ [][NextRetention]_vars

(***************************************************************************)
(* The configured TTL.  JWT_EXPIRES_IN is read from the environment once,  *)
(* when config/jwt.js is loaded; every string below is one that jwt.sign   *)
(* accepts as expiresIn.                                                   *)
(***************************************************************************)
TtlSettings ==
  {Unset, <<"3", "0", "s">>, <<"1", "5", "m">>, <<"2", "h">>, <<"1", "d">>,
   <<"1", "w">>, <<"2", " ", "d", "a", "y", "s">>, <<"9", "0", "0", "0">>}

InitTtl == env \in TtlSettings /\ Seeded

\* One request at a time, under any of the TTL settings.
SpecTtl == InitTtl /\ [][NextSeq]_vars

(***************************************************************************)
(* Roles.  routes/otp.js puts authorize('admin') behind authenticate on    *)
(* the administrator's routes; models/User.js updateRole has no caller in  *)
(* the services.  The controllers behind these routes are outside this     *)
(* model: a request that reaches one is answered 200.                      *)
(***************************************************************************)
Roles == {"admin", "local"}

\* req.user with the role claim of the token.
reqUser_fromToken(user, token) ==
  [id |-> user.id, username |-> user.username, role |-> token.role]

\* req.user as authenticate sets it, from the row it has just read.
reqUser(user, token) ==
  [id |-> user.id, username |-> user.username, role |-> user.role]

NoReqUser == [id |-> 0, username |-> "", role |-> ""]

\* authorize(...allowedRoles): a response, or NoResponse when it calls
\* next().
authorize(allowedRoles, user) ==
  IF user = NoReqUser THEN Response(401, "UNAUTHORIZED", "Authentication required")
  ELSE IF user.role \notin allowedRoles THEN
    Response(403, "FORBIDDEN", "Insufficient permissions")
  ELSE NoResponse

\* GET /otp/statistics arrives: authenticate, authorize('admin'), and the
\* controller.
OtpStatistics(p, token) ==
  /\ Free(p)
  /\ started < MaxRequests
  /\ started' = started + 1
  /\ LET r == [Idle EXCEPT !.op = "otpStatistics", !.token = token,
                           !.ledgerRevoked = findByToken(token).revoked_at # NULL]
         gate == authenticate(token, now)
         role == authorize({"admin"}, reqUser(findById(token.userId), token))
     IN
     req' = Set(p, IF gate # NoResponse THEN Respond(r, gate)
                   ELSE IF role # NoResponse THEN Respond(r, role)
                   ELSE Respond(r, Success(NoToken)))
  /\ UNCHANGED <<env, now, users, sessions, nextSessionId, audit, ticks, faults, lastWrite, loggedOut>>

\* UPDATE users SET role = ? WHERE id = ?
updateRole(row, role) == [row EXCEPT !.role = role]

UpdateRole(userId, role) ==
  /\ users[userId].role # role
  /\ users' = [users EXCEPT ![userId] = updateRole(@, role)]
  /\ UNCHANGED <<env, now, sessions, nextSessionId, audit, req, started, ticks, faults,
                 lastWrite, loggedOut>>

\* One request at a time, the administrator's route among them; an
\* administrator may change a role or deactivate an account.
NextRoles ==
  \/ NextSeq
  \/ \E p \in Procs, tok \in IssuedTokens : Quiescent /\ OtpStatistics(p, tok)
  \/ \E userId \in UserIds, role \in Roles : UpdateRole(userId, role)
  \/ \E userId \in UserIds : Deactivate(userId)

SpecRoles == Init /\ [][NextRoles]_vars

(***************************************************************************)
(* Properties.                                                             *)
(***************************************************************************)
InFlight(p) == req[p].pc \notin {"idle", "done"}

\* The login in slot p has failed on the password and holds the row that
\* incrementFailedAttempts returned.
FailedLogin(p) ==
  req[p].op = "login" /\ req[p].pc = "audit" /\ req[p].verified = "invalid"

\* The login in slot p read a row whose lock had not run out.
LookedUpLocked(p) ==
  /\ req[p].op = "login"
  /\ req[p].pc \in {"audit", "done"}
  /\ req[p].user.id # 0
  /\ req[p].user.is_active
  /\ req[p].user.locked_until # NULL
  /\ req[p].lookupAt < req[p].user.locked_until

\* C1: with one login attempt at a time, an account whose counter is below
\* MAX_LOGIN_ATTEMPTS carries no lock; every wrong-password attempt raises
\* the counter by exactly one, and it locks the account, until the time of
\* that attempt plus LOCKOUT_DURATION_MINUTES, exactly when the counter has
\* reached MAX_LOGIN_ATTEMPTS; and every attempt that finds the account
\* inside its lock window is answered ACCOUNT_LOCKED without the password
\* being looked at, the correct password included.
C1_LockoutAfterThreshold ==
  /\ \A u \in UserIds :
       users[u].failed_login_attempts < MAX_LOGIN_ATTEMPTS => users[u].locked_until = NULL
  /\ \A p \in Procs :
       FailedLogin(p) =>
         /\ req[p].updatedUser.failed_login_attempts =
              req[p].user.failed_login_attempts + 1
         /\ IF req[p].updatedUser.failed_login_attempts >= MAX_LOGIN_ATTEMPTS
              THEN /\ req[p].wroteLock
                   /\ req[p].updatedUser.locked_until =
                        req[p].lockAt + LOCKOUT_DURATION_MINUTES * 60
              ELSE /\ ~req[p].wroteLock
                   /\ req[p].updatedUser.locked_until = NULL
  /\ \A p \in Procs :
       LookedUpLocked(p) =>
         /\ req[p].verified = ""
         /\ req[p].outcome = AccountLockedError
         /\ req[p].pc = "done" => req[p].result = AccountLockedError

\* The attempt that reached the threshold locked the account, and an
\* attempt with the correct password inside the window was turned away.
C1_Witness ==
  \E p \in Procs :
    /\ LookedUpLocked(p)
    /\ req[p].pc = "done"
    /\ verifyPassword(req[p].password, req[p].user.password_hash)
    /\ req[p].user.failed_login_attempts = MAX_LOGIN_ATTEMPTS
    /\ req[p].result.code = "ACCOUNT_LOCKED"
    /\ \E i \in 1..Len(audit) :
         /\ audit[i].details.failedAttempts = MAX_LOGIN_ATTEMPTS
         /\ audit[i].details.isLocked

C3_RevokedTokenRejected ==
  \A p \in Procs :
    (req[p].op \in ProtectedOps /\ req[p].ledgerRevoked) =>
      /\ req[p].pc = "done"
      /\ req[p].result.status = 401

\* The changePassword in slot p has answered success.
PasswordChanged(p) ==
  /\ req[p].op = "changePassword"
  /\ req[p].pc = "done"
  /\ req[p].result.status = 200

\* The session rows of the user that existed when the hash was replaced.
SessionsBeforeChange(p) ==
  {i \in SessionIdx :
     sessions[i].user_id = req[p].token.userId /\ sessions[i].id < req[p].cpCutoff}

\* C4: once changePassword has answered success, isValid is false for the
\* token of every session of that user that was issued before the hash was
\* replaced, and the steps of changePassword leave every session row of
\* every other user as it was.
C4_ChangePasswordRevokesSessions ==
  /\ [](\A p \in Procs :
          PasswordChanged(p) =>
            \A i \in SessionsBeforeChange(p) : ~isValid(sessions[i].token, now))
  /\ [][\A p \in Procs :
          (req[p].pc \in {"cp_set_hash", "cp_revoke_all"} /\ req'[p].pc # req[p].pc) =>
            \A i \in SessionIdx :
              sessions[i].user_id # req[p].userId => sessions'[i] = sessions[i]]_vars

\* A password change that cut off a live session of its user while a
\* session of another user stayed valid.
C4_Witness ==
  \E p \in Procs :
    /\ PasswordChanged(p)
    /\ \E i \in SessionsBeforeChange(p) :
         /\ now < sessions[i].expires_at
         /\ ~isValid(sessions[i].token, now)
    /\ \E j \in SessionIdx :
         /\ sessions[j].user_id # req[p].token.userId
         /\ isValid(sessions[j].token, now)

\* Two wrong-password logins against one account are under way together.
ConcurrentFailures(p, q) ==
  /\ p # q
  /\ InFlight(p) /\ InFlight(q)
  /\ req[p].op = "login" /\ req[q].op = "login"
  /\ req[p].verified = "invalid" /\ req[q].verified = "invalid"
  /\ req[p].user.id = req[q].user.id

\* C5: of wrong-password logins that run together against one account, no
\* two write the same counter value (no increment is lost), and the lock is
\* written only by the one whose increment made the counter
\* MAX_LOGIN_ATTEMPTS, so by one of them at most.
C5_LockEngagedOnce ==
  \A p, q \in Procs :
    ConcurrentFailures(p, q) =>
      /\ (req[p].myCount # NULL /\ req[q].myCount # NULL) => req[p].myCount # req[q].myCount
      /\ req[p].wroteLock => req[p].myCount = MAX_LOGIN_ATTEMPTS
      /\ ~(req[p].wroteLock /\ req[q].wroteLock)

\* The login in slot p answers success in this step.
LoginReturnsSuccess(p) ==
  /\ req[p].op = "login"
  /\ req[p].pc = "audit"
  /\ req'[p].pc = "done"
  /\ req'[p].result.status = 200

Unlocked(row) == row.failed_login_attempts = 0 /\ row.locked_until = NULL

\* C6 as stated: in the state in which a login answers success, the account
\* has failed_login_attempts = 0 and locked_until = NULL.
C6_CleanAtReturn ==
  [][\A p \in Procs : LoginReturnsSuccess(p) => Unlocked(users'[req[p].user.id])]_vars

\* C6: the reset step of a successful login leaves the account with
\* failed_login_attempts = 0 and locked_until = NULL, and the account is
\* still so in the state in which the login answers success whenever no
\* other login attempt has written the lockout columns since that reset.
C6_CleanAfterResetUndisturbed ==
  /\ [][\A p \in Procs :
          (req[p].pc = "login_reset" /\ req'[p].pc # "login_reset") =>
            Unlocked(users'[req[p].user.id])]_vars
  /\ [][\A p \in Procs :
          (LoginReturnsSuccess(p) /\ lastWrite'[req[p].user.id] = p) =>
            Unlocked(users'[req[p].user.id])]_vars

\* A login that found failures on the account has answered success, last
\* to write the lockout columns, and the account is clean.
C6_Witness ==
  \E p \in Procs :
    /\ req[p].op = "login"
    /\ req[p].pc = "done"
    /\ req[p].result.status = 200
    /\ req[p].user.failed_login_attempts > 0
    /\ lastWrite[req[p].user.id] = p
    /\ Unlocked(users[req[p].user.id])

\* C7: a logout with a token that a logout has revoked before leaves the
\* session ledger as it was.
C7_SecondLogoutChangesNothing ==
  [][\A p \in Procs :
       (/\ req[p].pc = "logout_revoke"
        /\ req'[p].pc # "logout_revoke"
        /\ req[p].token \in loggedOut) => sessions' = sessions]_vars

\* C8: a request that has an audit entry to write answers what it had
\* decided before the write, whether the write succeeds or fails.
C8_AuditFailureKeepsOutcome ==
  \A p \in Procs :
    (req[p].pc = "done" /\ req[p].outcome # NoResponse) => req[p].result = req[p].outcome

\* The logins in slots p and q were sent with one password, p for a
\* username nobody has and q for an active, unlocked account whose password
\* is another; both are answered.
UnknownAndWrong(p, q) ==
  /\ req[p].op = "login" /\ req[q].op = "login"
  /\ req[p].pc = "done" /\ req[q].pc = "done"
  /\ req[p].password = req[q].password
  /\ req[p].user.id = 0
  /\ req[q].user.id # 0
  /\ req[q].user.is_active
  /\ ~isAccountLocked(req[q].user.locked_until, req[q].lookupAt)
  /\ req[q].verified = "invalid"

\* C9: a login for a username nobody has and a login with a wrong password
\* for an active, unlocked account get the same response: status, code and
\* message, and every other field of the body.
C9_SameAnswer ==
  \A p, q \in Procs : UnknownAndWrong(p, q) => req[p].result = req[q].result

\* Such a pair, the second being the attempt that locked the account.
C9_Witness ==
  \E p, q \in Procs :
    /\ UnknownAndWrong(p, q)
    /\ req[q].wroteLock
    /\ req[p].result.status = 401

\* The login in slot p was the attempt that reached the threshold.
ThresholdAttempt(p) ==
  /\ req[p].op = "login"
  /\ req[p].wroteLock
  /\ MAX_LOGIN_ATTEMPTS = 5
  /\ LOCKOUT_DURATION_MINUTES = 15

ReturnsToken(p) ==
  /\ req[p].op \in {"login", "refresh"}
  /\ req[p].pc = "audit"
  /\ req'[p].pc = "done"
  /\ req'[p].result.status = 200

\* C11: in the state in which a login or a refresh answers success, the
\* token it returns has a row in the session ledger and isValid answers true
\* for it.
C11_ReturnedTokenValid ==
  [][\A p \in Procs :
       ReturnsToken(p) =>
         /\ req'[p].result.token \in IssuedTokens'
         /\ isValid(req[p].result.token, now)']_vars

\* C12: isValid answers true for a token exactly when the ledger row found
\* for it is not revoked and the clock is strictly before the row's
\* expires_at; at now = expires_at it answers false.
C12_ValidIffLiveRow ==
  \A token \in IssuedTokens \cup {NoToken} :
    LET session == findByToken(token) IN
    isValid(token, now) <=>
      /\ session # NoSession
      /\ session.revoked_at = NULL
      /\ now < session.expires_at

\* C13: while an account is locked (now before its locked_until), no step
\* of any login attempt changes its locked_until or its
\* failed_login_attempts, the attempts that were already in flight when the
\* lock was written included.
C13_LockedAccountUntouched ==
  [][\A u \in UserIds :
       isAccountLocked(users[u].locked_until, now) =>
         /\ users'[u].locked_until = users[u].locked_until
         /\ users'[u].failed_login_attempts = users[u].failed_login_attempts]_vars

\* The step is the resetFailedAttempts of a login on account u whose
\* password verification succeeded.
LoginResetStep(u) ==
  \E p \in Procs :
    /\ req[p].op = "login"
    /\ req[p].pc = "login_reset"
    /\ req'[p].pc = "login_last_login"
    /\ req[p].user.id = u
    /\ req[p].verified = "valid"
    /\ verifyPassword(req[p].password, req[p].user.password_hash)

\* The step is an unlockAccount on account u: no request moves.
UnlockStep(u) ==
  /\ req' = req
  /\ users' = [users EXCEPT ![u] = unlockAccount(@)]

LoginStep(p) == req'[p] # req[p] /\ req'[p].op = "login"

\* The audit entry a login answered with `response` has to leave.
LoginEntryFits(entry, r, response) ==
  /\ entry.action = "login"
  /\ entry.userId = r.user.id
  /\ entry.status = IF response.status = 200 THEN "success" ELSE "failure"
  /\ response.code \in {"OK", "INVALID_CREDENTIALS", "ACCOUNT_INACTIVE", "ACCOUNT_LOCKED"}

HoldsNewToken(p) ==
  /\ req[p].op \in {"login", "refresh"}
  /\ req[p].pc = "audit"
  /\ req[p].outcome.status = 200

\* The times at which a token signed at t is verified before its expiry.
BeforeExpiry(t) == {t, t + 1, t + getTokenExpirationSeconds - 1}

ClaimsPlusTimes(payload, claims, t) ==
  /\ DOMAIN payload = DOMAIN claims \cup {"iat", "exp"}
  /\ \A f \in DOMAIN claims : payload[f] = claims[f]
  /\ payload.iat = t
  /\ payload.exp = t + getTokenExpirationSeconds

C17_FailClosed ==
  \A p \in Procs :
    /\ (req[p].op \in {"login", "refresh"} /\ req[p].failedCall # "") =>
         /\ req[p].pc = "done"
         /\ req[p].result.status = 500
         /\ req[p].result.token = NoToken
    /\ req[p].failedCall = "authenticate" =>
         /\ req[p].pc = "done"
         /\ req[p].result = authenticateCatch
         /\ req[p].userId = 0

\* The Session.create of a refresh threw after the old session had been
\* revoked: the caller got a 500 and no token.
C17_Witness ==
  \E p \in Procs :
    /\ req[p].op = "refresh"
    /\ req[p].failedCall = "refresh_create_session"
    /\ req[p].pc = "done"
    /\ req[p].result.status = 500
    /\ req[p].result.token = NoToken
    /\ \E i \in SessionIdx : sessions[i].token = req[p].token /\ sessions[i].revoked_at # NULL

\* C18: every request that is being served is answered in the end, also
\* when a call to the database stays unanswered.
C18_EveryCallTerminates ==
  \A p \in Procs : InFlight(p) ~> req[p].pc = "done"

\* The login in slot p, with the account's password, read an active row
\* whose lock had run out by then.
CorrectAfterLockout(p) ==
  /\ req[p].op = "login"
  /\ req[p].pc # "idle"
  /\ req[p].user.id # 0
  /\ req[p].user.is_active
  /\ req[p].user.locked_until # NULL
  /\ req[p].lookupAt >= req[p].user.locked_until
  /\ verifyPassword(req[p].password, req[p].user.password_hash)

\* C19: with one attempt at a time and no administrator, a login with the
\* correct password that reads the account at or after its locked_until is
\* not turned away: its password is verified, it resets the row to
\* failed_login_attempts = 0 and locked_until = NULL, and it answers success
\* with a token.
C19_UnlocksOnExpiry ==
  \A p \in Procs :
    CorrectAfterLockout(p) =>
      /\ req[p].verified = "valid"
      /\ req[p].pc \in {"login_reset", "login_last_login", "login_create_session",
                        "audit", "done"}
      /\ req[p].pc # "login_reset" => Unlocked(users[req[p].user.id])
      /\ req[p].pc \in {"audit", "done"} =>
           /\ req[p].outcome.status = 200
           /\ req[p].outcome.token \in IssuedTokens
      /\ req[p].pc = "done" =>
           /\ req[p].result.status = 200
           /\ req[p].result.token # NoToken

\* The account was locked at the threshold, the lock ran out, and the login
\* with the correct password has been answered success, the row clean.
C19_Witness ==
  \E p \in Procs :
    /\ CorrectAfterLockout(p)
    /\ req[p].pc = "done"
    /\ req[p].user.failed_login_attempts = MAX_LOGIN_ATTEMPTS
    /\ req[p].lookupAt = req[p].user.locked_until
    /\ req[p].result.status = 200
    /\ Unlocked(users[req[p].user.id])

\* Every entry of the trail is still there, in place and unchanged.
KeepsEntries ==
  /\ Len(audit') >= Len(audit)
  /\ SubSeq(audit', 1, Len(audit)) = audit

\* The step is a run of deleteOlderThan: no request moves.
PurgeStep ==
  /\ req' = req
  /\ \E days \in PurgeDays : audit' = deleteOlderThan(days, now)

\* C20: every step of a login, logout, refresh or changePassword leaves
\* each entry that is in the audit trail in place and unchanged, adding at
\* most one entry at the end; a step after which an entry is missing is a
\* run of the purge deleteOlderThan(days).
C20_AppendOnly ==
  /\ [][req' # req => KeepsEntries /\ Len(audit') <= Len(audit) + 1]_vars
  /\ [][~KeepsEntries => PurgeStep]_vars

\* The purge has removed the seeded entry, and the trail holds the entries
\* two requests wrote after it.
C20_Witness ==
  /\ Len(audit) = 2
  /\ \A i \in 1..Len(audit) : audit[i].created_at > 0
  /\ \E p \in Procs : req[p].pc = "done" /\ req[p].op = "changePassword"
                       /\ req[p].result.status = 200

\* The failed logins that reached the login service in the 15 minutes up to
\* now: each of them left its 'failure' entry in the audit trail.
FailedLoginsInWindow ==
  {i \in 1..Len(audit) :
     /\ audit[i].action = "login"
     /\ audit[i].status = "failure"
     /\ audit[i].created_at > now - 15 * 60}

\* C21: of the logins one client sends, at most 5 failed ones reach the
\* login service within 15 minutes, and a login sent after that in the
\* window is answered 429 RATE_LIMIT_EXCEEDED.
C21_LoginRateLimited ==
  /\ Cardinality(FailedLoginsInWindow) <= 5
  /\ \A p \in Procs :
       (req[p].op = "login" /\ req[p].pc = "audit"
          /\ Cardinality(FailedLoginsInWindow) >= 5) =>
         req[p].outcome.code = "RATE_LIMIT_EXCEEDED"

\* The positions a login call moves through, as pairs <<from, to>>: the
\* lookup with the lock check and the verification, then either the
\* increment (and the lock) or the reset, the token and the session, and
\* last the audit entry and the answer.
LoginOrder ==
  {<<from, to>> : from \in {"idle", "done"}, to \in {"audit", "login_increment", "login_reset"}}
  \cup {<<"login_increment", "login_increment_read">>,
        <<"login_increment_read", "login_lock">>,
        <<"login_increment_read", "audit">>,
        <<"login_lock", "login_lock_read">>,
        <<"login_lock_read", "audit">>,
        <<"login_reset", "login_last_login">>,
        <<"login_last_login", "login_create_session">>,
        <<"login_create_session", "audit">>,
        <<"audit", "done">>}

RefreshStep(p) == req'[p] # req[p] /\ req'[p].op = "refresh"

\* C23: a refresh that fails (old session missing, revoked or expired, user
\* missing or inactive) is answered before it has written to the ledger,
\* and no step of it changes the ledger; a refresh that succeeds revoked
\* the old session first and created the new one after, and in the state
\* in which it answers the old token fails isValid and the returned new
\* token passes isValid.
C23_RefreshFrame ==
  [][\A p \in Procs :
       RefreshStep(p) =>
         /\ sessions' # sessions =>
              req[p].pc \in {"refresh_revoke", "refresh_create_session"}
         /\ (req'[p].pc = "done" /\ req'[p].result.status # 200) =>
              /\ req[p].pc \in {"idle", "done", "refresh_is_valid",
                                "refresh_find_session", "refresh_find_user"}
              /\ sessions' = sessions
         /\ req[p].pc = "refresh_revoke" =>
              /\ Len(sessions') = Len(sessions)
              /\ \E i \in SessionIdx :
                   sessions[i].id = req[p].session.id /\ sessions'[i].revoked_at # NULL
         /\ req[p].pc = "refresh_create_session" =>
              /\ sessions' = Append(sessions, sessions'[Len(sessions')])
              /\ \E i \in SessionIdx :
                   sessions[i].id = req[p].session.id /\ sessions[i].revoked_at # NULL
         /\ (req'[p].pc = "done" /\ req'[p].result.status = 200) =>
              /\ ~isValid(req[p].token, now)'
              /\ isValid(req[p].result.token, now)']_vars

\* The changePassword in slot p takes a step.
CpStep(p) == req'[p] # req[p] /\ req'[p].op = "changePassword"

\* C24: a changePassword whose current password is wrong writes nothing to
\* the users table or to the ledger, appends one 'password_change' entry
\* with status 'failure' and answers 401 INVALID_CREDENTIALS.  The only
\* write of a changePassword to the users table is the new hash, made after
\* the current password was verified, and it changes no other column; its
\* only write to the ledger is the revocation in the step after that.
C24_WrongCurrentPasswordChangesNothing ==
  [][\A p \in Procs :
       CpStep(p) =>
         /\ req'[p].verified = "invalid" =>
              /\ users' = users
              /\ sessions' = sessions
              /\ req'[p].pc \in {"audit", "done"}
              /\ req'[p].outcome.status = 401
              /\ req'[p].outcome.code = "INVALID_CREDENTIALS"
              /\ req'[p].pc = "done" =>
                   /\ req'[p].result = req'[p].outcome
                   /\ Len(audit') = Len(audit) + 1
                   /\ SubSeq(audit', 1, Len(audit)) = audit
                   /\ audit'[Len(audit')].action = "password_change"
                   /\ audit'[Len(audit')].status = "failure"
              /\ req'[p].pc # "done" => audit' = audit
         /\ users' # users =>
              /\ req[p].pc = "cp_set_hash"
              /\ req'[p].pc = "cp_revoke_all"
              /\ req[p].verified = "valid"
              /\ verifyPassword(req[p].password, req[p].user.password_hash)
              /\ users' = [users EXCEPT ![req[p].userId].password_hash =
                                          users'[req[p].userId].password_hash]
         /\ sessions' # sessions => req[p].pc = "cp_revoke_all"]_vars

\* A changePassword with a wrong current password has been answered: the
\* hash is the seeded one, the seeded session is live, and the trail ends
\* with the failure entry.
C24_Witness ==
  \E p \in Procs :
    /\ req[p].op = "changePassword"
    /\ req[p].pc = "done"
    /\ req[p].verified = "invalid"
    /\ req[p].result.code = "INVALID_CREDENTIALS"
    /\ users[req[p].user.id].password_hash = bcryptHash("SecurePass123!")
    /\ sessions[1].revoked_at = NULL
    /\ audit[Len(audit)].action = "password_change"
    /\ audit[Len(audit)].status = "failure"

\* The login in slot p read a row whose lock had run out with the counter
\* still at or over the threshold, and its password was wrong.
WrongAfterLockout(p) ==
  /\ req[p].op = "login"
  /\ req[p].verified = "invalid"
  /\ req[p].user.failed_login_attempts >= MAX_LOGIN_ATTEMPTS
  /\ req[p].user.locked_until # NULL
  /\ req[p].lookupAt >= req[p].user.locked_until

GateStep(p) ==
  /\ req[p].pc \in {"idle", "done"}
  /\ req'[p] # req[p]
  /\ req'[p].op \in ProtectedOps

\* The listed outcome for a request with the Bearer token `token` (NoToken:
\* no such header) at time t: <<status, code>>, or <<0, "next">>.
ListedOutcome(token, t) ==
  IF token = NoToken THEN <<401, "NO_TOKEN">>
  ELSE IF token.userId # 0 /\ t >= token.exp THEN <<401, "TOKEN_EXPIRED">>
  ELSE IF token.userId = 0 THEN <<401, "INVALID_TOKEN">>
  ELSE IF findById(token.userId) = NoUser THEN <<401, "USER_NOT_FOUND">>
  ELSE IF ~findById(token.userId).is_active THEN <<403, "ACCOUNT_INACTIVE">>
  ELSE IF findById(token.userId).locked_until # NULL
          /\ findById(token.userId).locked_until > t THEN <<423, "ACCOUNT_LOCKED">>
  ELSE <<0, "next">>

\* The request record r is what the listed outcome leaves: a response and
\* no next(), or next() with req.user set and no response.
GateFits(r, listed) ==
  IF listed[2] = "next"
    THEN r.pc = FirstStep(r.op) /\ r.result = NoResponse /\ r.userId = r.token.userId
    ELSE r.pc = "done" /\ r.result.status = listed[1] /\ r.result.code = listed[2]

\* C26: authenticate gives every request exactly one outcome, decided in
\* this order: no 'Bearer ' header 401 NO_TOKEN; expired token 401
\* TOKEN_EXPIRED; malformed or badly signed token 401 INVALID_TOKEN; user
\* gone 401 USER_NOT_FOUND; user inactive 403 ACCOUNT_INACTIVE; user locked
\* 423 ACCOUNT_LOCKED; otherwise req.user is set and next() is called once;
\* it never both responds and calls next().
C26_GateOutcomes ==
  [][\A p \in Procs : GateStep(p) => GateFits(req'[p], ListedOutcome(req'[p].token, now))]_vars

\* C26, amended: the same, with one more outcome between the token checks
\* and the user checks: when the user lookup throws, authenticate answers
\* 500 AUTH_ERROR and does not call next().
C26_GateOutcomesOrAuthError ==
  [][\A p \in Procs :
       GateStep(p) =>
         IF req'[p].failedCall = "authenticate"
           THEN /\ verifyToken(req'[p].token, now) = "ok"
                /\ req'[p].pc = "done"
                /\ req'[p].result = authenticateCatch
           ELSE GateFits(req'[p], ListedOutcome(req'[p].token, now))]_vars

\* A request answered 403 ACCOUNT_INACTIVE for an account that is locked as
\* well, after requests that were answered at the gate for other reasons.
C26_Witness ==
  \E p \in Procs :
    /\ req[p].pc = "done"
    /\ req[p].op \in ProtectedOps
    /\ req[p].result.code = "ACCOUNT_INACTIVE"
    /\ users[req[p].token.userId].locked_until # NULL
    /\ users[req[p].token.userId].locked_until > now

\* The ledger after an UPDATE that stamps revoked_at = now on the sessions
\* of userId that are not yet revoked and whose token is not in `exempt`,
\* and that writes nothing else.
RevokeFrame(userId, exempt) ==
  /\ Len(sessions') = Len(sessions)
  /\ \A i \in SessionIdx :
       sessions'[i] =
         IF /\ sessions[i].user_id = userId
            /\ sessions[i].token \notin exempt
            /\ sessions[i].revoked_at = NULL
           THEN [sessions[i] EXCEPT !.revoked_at = now]
           ELSE sessions[i]
  /\ UNCHANGED <<env, users, audit, nextSessionId>>

\* A revokeAllExceptCurrent that revokes something: the only arrival that
\* writes to the ledger at once and belongs to no request.
ExceptStep == started' = started + 1 /\ req' = req /\ sessions' # sessions

\* changePassword's revokeAllByUserId.
RevokeAllStep(p) == req[p].pc = "cp_revoke_all" /\ req'[p].pc = "audit"

\* C27: revokeAllExceptCurrent(userId, currentToken) stamps every session
\* of userId that is not yet revoked and does not carry currentToken, and
\* changes nothing else: the session of currentToken keeps its revoked_at,
\* sessions of other users are untouched, revoked_at of sessions already
\* revoked is not overwritten; revokeAllByUserId has the same frame without
\* the exception.
C27_RevokeFrame ==
  [][/\ ExceptStep =>
          \E userId \in UserIds, tok \in IssuedTokens \cup {SeedSession.token} :
            RevokeFrame(userId, {tok})
     /\ \A p \in Procs : RevokeAllStep(p) => RevokeFrame(req[p].userId, {})]_vars

\* After one login, revokeAllExceptCurrent has revoked the seeded session
\* in this second and left the session of the login's token live.
C27_Witness ==
  /\ started = 2
  /\ req[1].pc = "done" /\ req[1].op = "login" /\ req[1].result.status = 200
  /\ Len(sessions) = 2
  /\ sessions[1].revoked_at = now
  /\ sessions[2].revoked_at = NULL
  /\ sessions[2].token = req[1].result.token
  /\ sessions[1].token # sessions[2].token
  /\ loggedOut = {}

\* The seconds the stated rule gives for the TTL settings: digits times the
\* unit for <digits><s|m|h|d>, 3600 for the default and for any other form.
StatedSeconds ==
  CASE env = <<"3", "0", "s">> -> 30
    [] env = <<"1", "5", "m">> -> 900
    [] env = <<"2", "h">> -> 7200
    [] env = <<"1", "d">> -> 86400
    [] OTHER -> 3600

\* The ledger rows a login answered with `token` has created.
RowsOf(token) == {s \in SessionRows : s.token = token /\ s.created_at = token.iat}

\* C28: the lifetime used for the ledger's expires_at (and reported as
\* expiresIn) is digits x (1, 60, 3600, 86400) seconds for a TTL of the
\* form <digits><s|m|h|d>, 3600 for the default '1h' and for a TTL of any
\* other form, and it equals the lifetime embedded in the token issued
\* under the same configuration.
C28_LifetimeFromTtl ==
  /\ getTokenExpirationSeconds = StatedSeconds
  /\ \A p \in Procs :
       (req[p].pc = "done" /\ req[p].op = "login" /\ req[p].result.status = 200) =>
         \A s \in RowsOf(req[p].result.token) :
           /\ s.expires_at - s.created_at = StatedSeconds
           /\ s.token.exp - s.token.iat = s.expires_at - s.created_at

\* changePassword's service runs for a userId that has no account.
CpMissingUserStep(p) ==
  /\ req[p].pc = "cp_find_by_id"
  /\ findById(req[p].userId) = NoUser
  /\ req'[p] # req[p]

\* C29: changePassword called with a userId that has no account (the user
\* was deleted after the request was authenticated) fails with the typed
\* error USER_NOT_FOUND (404) and changes no state; it never ends with an
\* untyped internal error.
C29_MissingUserTyped ==
  [][\A p \in Procs :
       CpMissingUserStep(p) =>
         /\ req'[p].pc = "done"
         /\ req'[p].result.status = 404
         /\ req'[p].result.code = "USER_NOT_FOUND"
         /\ UNCHANGED <<users, sessions, audit>>]_vars

\* A purge ran: nothing else removes rows from the ledger.
SessionPurgeStep == Len(sessions') < Len(sessions)

\* Tokens whose validity can be asked about: those in the ledger before the
\* purge, and the seeded one.
AskedTokens == IssuedTokens \cup {SeedSession.token}

\* C30: the session purges are idempotent and validity-preserving: running
\* deleteExpired or deleteRevokedOlderThan twice in one state gives the
\* ledger that running it once gives; a purge removes only sessions for
\* which isValid is already false; and no token's isValid changes, from
\* false to true or from true to false, because of a purge.
C30_PurgeIdempotentValidityPreserving ==
  [][/\ deleteExpired(deleteExpired(sessions, now), now) = deleteExpired(sessions, now)
     /\ \A days \in PurgeDays :
          deleteRevokedOlderThan(deleteRevokedOlderThan(sessions, days, now), days, now)
            = deleteRevokedOlderThan(sessions, days, now)
     /\ SessionPurgeStep =>
          /\ \A i \in SessionIdx :
               (\A j \in 1..Len(sessions') : sessions'[j].id # sessions[i].id) =>
                 ~isValid(sessions[i].token, now)
          /\ \A tok \in AskedTokens : isValid(tok, now)' = isValid(tok, now)]_vars

\* C31: in every reachable state, whatever the interleaving of successful
\* and failed logins on one account, locked_until is non-null only if
\* failed_login_attempts has reached MAX_LOGIN_ATTEMPTS: no lock is written
\* after a successful login's reset by a failed attempt that read the
\* counter before that reset.
C31_LockOnlyAtThreshold ==
  \A u \in UserIds :
    users[u].locked_until # NULL => users[u].failed_login_attempts >= MAX_LOGIN_ATTEMPTS

\* The requests in slots p and q are refresh calls with one token, both
\* answered.
TwoRefreshes(p, q) ==
  /\ p # q
  /\ req[p].pc = "done" /\ req[p].op = "refresh"
  /\ req[q].pc = "done" /\ req[q].op = "refresh"
  /\ req[p].token = req[q].token

\* C32: a session token is exchanged by refresh at most once: of two
\* refresh calls with the same token that run concurrently, at most one
\* succeeds, and at most one new session that is live exists afterwards.
C32_RefreshAtMostOnce ==
  \A p, q \in Procs :
    TwoRefreshes(p, q) =>
      /\ ~(req[p].result.status = 200 /\ req[q].result.status = 200)
      /\ Cardinality({s \in SessionRows :
                        /\ s.user_id = req[p].token.userId
                        /\ s.id # findByToken(req[p].token).id
                        /\ s.revoked_at = NULL
                        /\ ~(s.expires_at < now)}) <= 1

\* The request in slot q is a login that succeeded on a password that is
\* no longer the account's: it was verified against the old hash.
LoginOnOldPassword(q) ==
  /\ req[q].pc = "done" /\ req[q].op = "login" /\ req[q].result.status = 200
  /\ ~verifyPassword(req[q].password, users[req[q].user.id].password_hash)

\* C33: once changePassword has returned successfully, no valid session
\* exists that was obtained by a login verified against the old password,
\* also when that login was in flight (password verified, session not yet
\* created) while changePassword ran.
C33_NoSessionFromOldPassword ==
  \A p, q \in Procs :
    (/\ req[p].pc = "done" /\ req[p].op = "changePassword" /\ req[p].result.status = 200
     /\ LoginOnOldPassword(q)
     /\ req[q].user.id = req[p].token.userId)
      => ~isValid(req[q].result.token, now)

\* The live ledger rows the login in slot p created: the rows carrying the
\* token it had signed when it ended.
LiveRowsOfLogin(p) ==
  {s \in RowsOf(req[p].outcome.token) : s.revoked_at = NULL /\ ~(s.expires_at < now)}

\* C34: a login call that ends with an error returned to the caller, an
\* error raised by a store, ledger or audit call included, has left no
\* valid session in the ledger: a session row exists only for logins that
\* returned their token.
C34_NoSessionWithoutToken ==
  \A p \in Procs :
    (req[p].pc = "done" /\ req[p].op = "login" /\ req[p].result.status # 200) =>
      /\ req[p].outcome.token = NoToken
      /\ LiveRowsOfLogin(p) = {}

\* The refresh in slot p, which had passed its validity check, ends.
RefreshEnds(p) ==
  /\ req[p].op = "refresh"
  /\ req[p].pc \notin {"idle", "done", "refresh_is_valid"}
  /\ req'[p].pc = "done"

\* C35: refresh is all-or-nothing for the caller's access: after a refresh
\* call that started from a valid session, whether it returned a token or
\* an error (a failure of session creation or of the audit write
\* included), the old token still passes isValid or a new token that
\* passes isValid was returned to the caller.
C35_RefreshAllOrNothing ==
  [][\A p \in Procs :
       RefreshEnds(p) =>
         \/ isValid(req[p].token, now)'
         \/ (req[p].result.token # NoToken /\ isValid(req[p].result.token, now))']_vars

\* The account u is inside its lock window.
LockedNow(u) == u \in UserIds /\ isAccountLocked(users[u].locked_until, now)

\* A step of the logout, refresh or changePassword service for the request
\* in slot p, behind authenticate.
ServiceStep(p) ==
  /\ req[p].op \in {"logout", "refresh", "changePassword"}
  /\ req[p].pc \notin {"idle", "done"}
  /\ req'[p] # req[p]

\* The ledger rows of account u.
LedgerOf(u) == {s \in SessionRows : s.user_id = u}

\* While an account is locked no service step runs for it, and no step of
\* a request changes its ledger rows.
QuietWhileLocked ==
  /\ \A p \in Procs : ServiceStep(p) => ~LockedNow(req[p].userId)
  /\ \A u \in UserIds : (LockedNow(u) /\ req' # req) => LedgerOf(u)' = LedgerOf(u)

\* C36: while an account is locked (now < locked_until) authenticate
\* rejects every request carrying any token of that account with 423
\* ACCOUNT_LOCKED, so during the lock window no logout, refresh or
\* changePassword service step runs for that account and its session
\* ledger rows do not change.
C36_LockedRejected423 ==
  [][/\ \A p \in Procs :
          (GateStep(p) /\ LockedNow(req'[p].token.userId)) =>
            req'[p].pc = "done" /\ req'[p].result.code = "ACCOUNT_LOCKED"
     /\ QuietWhileLocked]_vars

\* C36, amended: while an account is locked authenticate rejects every
\* request that arrives with a token of that account: with 423
\* ACCOUNT_LOCKED when the token verifies, the account is active and the
\* user lookup answers, and with the outcome of the earlier check
\* otherwise (401 TOKEN_EXPIRED, 403 ACCOUNT_INACTIVE, 500 AUTH_ERROR); so,
\* requests being served one at a time, no service step runs for the
\* account during the lock window and its ledger rows do not change.
C36_LockedRejected ==
  [][/\ \A p \in Procs :
          (GateStep(p) /\ LockedNow(req'[p].token.userId)) =>
            /\ req'[p].pc = "done"
            /\ req'[p].result.status \in {401, 403, 423, 500}
            /\ req'[p].result.code = "ACCOUNT_LOCKED" <=>
                 /\ verifyToken(req'[p].token, now) = "ok"
                 /\ users[req'[p].token.userId].is_active
                 /\ req'[p].failedCall # "authenticate"
     /\ QuietWhileLocked]_vars

\* A request with the expired token of a locked account has been answered
\* 401 TOKEN_EXPIRED.
C36_Witness ==
  \E p \in Procs :
    /\ req[p].pc = "done" /\ req[p].op \in ProtectedOps
    /\ req[p].result.code = "TOKEN_EXPIRED"
    /\ LockedNow(req[p].token.userId)

\* The row s is in the ledger after the step.
Kept(s) == \E j \in 1..Len(sessions') : sessions'[j].id = s.id

\* The step is one of the purges.
IsSessionPurge ==
  \/ sessions' = deleteExpired(sessions, now)
  \/ \E days \in PurgeDays : sessions' = deleteRevokedOlderThan(sessions, days, now)

\* A row counts as valid when it is neither revoked nor expired.
RowValid(s, t) == s.revoked_at = NULL /\ ~(s.expires_at < t)

\* C37: revocation is monotonic: once a session's revoked_at is non-null
\* no operation sets it back to null, and no operation other than a purge
\* removes the row, so a revoked session never becomes valid again.
C37_RevocationMonotonic ==
  [][\A i \in SessionIdx :
       /\ ~Kept(sessions[i]) => IsSessionPurge
       /\ sessions[i].revoked_at # NULL =>
            \A j \in 1..Len(sessions') :
              sessions'[j].id = sessions[i].id =>
                /\ sessions'[j].revoked_at # NULL
                /\ ~RowValid(sessions'[j], now')]_vars

\* A logout has run on a session that was revoked before, and the session
\* is revoked still.
C37_Witness ==
  \E p \in Procs :
    /\ req[p].pc = "done" /\ req[p].op = "logout" /\ req[p].result.status = 200
    /\ req[p].ledgerRevoked
    /\ findByToken(req[p].token).revoked_at # NULL

\* The step deletes the account that owns the row s.
OwnerDeleted(s) == users[s.user_id] # NoUser /\ users'[s.user_id] = NoUser

\* C37, amended: once a session's revoked_at is non-null no operation sets
\* it back to null, and no operation other than a purge or the deletion of
\* the session's user (ON DELETE CASCADE) removes the row, so a revoked
\* session never becomes valid again.
C37_RevocationMonotonicButCascade ==
  [][\A i \in SessionIdx :
       /\ ~Kept(sessions[i]) => (IsSessionPurge \/ OwnerDeleted(sessions[i]))
       /\ sessions[i].revoked_at # NULL =>
            \A j \in 1..Len(sessions') :
              sessions'[j].id = sessions[i].id =>
                /\ sessions'[j].revoked_at # NULL
                /\ ~RowValid(sessions'[j], now')]_vars

\* C38: the two validity predicates of the ledger agree: for every session
\* and every time, Session.isValid(token) is true exactly when the session
\* is among findActiveByUserId(session.user_id), the instant
\* now = expires_at included.
C38_ValidityPredicatesAgree ==
  \A i \in SessionIdx :
    isValid(sessions[i].token, now)
      <=> sessions[i] \in findActiveByUserId(sessions[i].user_id, now)

\* A step of the login in slot p, which found its account inactive.
InactiveLoginStep(p) ==
  /\ LoginStep(p)
  /\ req'[p].user.id # 0
  /\ ~req'[p].user.is_active

\* C39: a login attempt on an inactive account fails with ACCOUNT_INACTIVE
\* whatever the password and whatever the lock state, before any password
\* verification, and changes neither failed_login_attempts nor
\* locked_until nor the session ledger; it appends one failure audit entry.
C39_InactiveLoginFrame ==
  [][\A p \in Procs :
       InactiveLoginStep(p) =>
         /\ UNCHANGED <<users, sessions, nextSessionId>>
         /\ req'[p].verified = ""
         /\ \/ /\ req'[p].pc = "audit"
               /\ req'[p].outcome = AccountInactiveError
               /\ audit' = audit
            \/ /\ req[p].pc = "audit"
               /\ req'[p].pc = "done"
               /\ req'[p].result = AccountInactiveError
               /\ audit' = Append(audit,
                                  AuditRow(AuditEntry(req'[p].user.id, "login", "failure",
                                                      Reason("account_inactive")), now))]_vars

\* A login with the right password on an account that is inactive and
\* inside a lock window has been answered 403 ACCOUNT_INACTIVE.
C39_Witness ==
  \E p \in Procs :
    /\ req[p].pc = "done" /\ req[p].op = "login"
    /\ req[p].result.code = "ACCOUNT_INACTIVE"
    /\ req[p].password = "SecurePass123!"
    /\ isAccountLocked(req[p].user.locked_until, req[p].lookupAt)

\* A request for the administrator's route arrives in slot p.
AdminRouteStep(p) ==
  /\ req[p].pc \in {"idle", "done"}
  /\ req'[p] # req[p]
  /\ req'[p].op = "otpStatistics"

\* The token verifies and its account is not inside a lock window.
PastTokenAndLock(token) ==
  /\ verifyToken(token, now) = "ok"
  /\ findById(token.userId) # NoUser
  /\ ~isAccountLocked(findById(token.userId).locked_until, now)

\* C40: authorization uses the account's stored role and active flag, not
\* the role claim of the token: after a role change or a deactivation every
\* later request with a token issued earlier is authorized against the
\* stored role, or rejected with ACCOUNT_INACTIVE, and no new token is
\* issued for that.
C40_StoredRoleDecides ==
  [][\A p \in Procs :
       /\ (AdminRouteStep(p) /\ PastTokenAndLock(req'[p].token)) =>
            LET row == findById(req'[p].token.userId) IN
            /\ req'[p].pc = "done"
            /\ req'[p].result.code =
                 IF ~row.is_active THEN "ACCOUNT_INACTIVE"
                 ELSE IF row.role = "admin" THEN "OK"
                 ELSE "FORBIDDEN"
            /\ req'[p].result.token = NoToken
            /\ UNCHANGED <<users, sessions>>
       /\ (GateStep(p) /\ PastTokenAndLock(req'[p].token)) =>
            IF ~findById(req'[p].token.userId).is_active
              THEN req'[p].pc = "done" /\ req'[p].result.code = "ACCOUNT_INACTIVE"
              ELSE req'[p].pc = FirstStep(req'[p].op)]_vars

\* A request with a token that claims 'admin', sent after the account's
\* role was changed to 'local', has been answered 403 FORBIDDEN.
C40_Witness ==
  \E p \in Procs :
    /\ req[p].pc = "done" /\ req[p].op = "otpStatistics"
    /\ req[p].token.role = "admin"
    /\ users[req[p].token.userId].role = "local"
    /\ req[p].result.code = "FORBIDDEN"

====
